---- MODULE Spec2Model ----
(***************************************************************************)
(* A model of the key-value server: the shared State (main.rs), the        *)
(* per-connection reader/writer pair (ConnectionState), the command        *)
(* handlers (command/*.rs) and the frame codec (resp.rs).                  *)
(*                                                                         *)
(* One action is one critical section of the code: the reader tasks of     *)
(* different connections run in parallel on a multi-threaded runtime, so   *)
(* two accesses of one handler to different shared objects (the DashMap    *)
(* `map`, the DashMap `waiting_on_list`, the RwLock `replicas`, an outbox) *)
(* are separate steps that other connections may interleave with.          *)
(***************************************************************************)
EXTENDS Integers, Sequences, FiniteSets, TLC

\* ------------------------------------------------------------------ bounds
\* frames one connection receives in a run of SpecTxn / SpecRepl / SpecReplica / SpecList
MaxTxnCmds == 4
MaxReplCmds == 2
MaxMasterCmds == 3
MaxListCmds == 2
MaxPipeCmds == 3

\* ------------------------------------------------------------- connections
\* accepted client connections (addr = Some(..)) and the handshake socket (addr = None)
Clients == {"c1", "c2", "c3", "c4"}
MasterConn == "m"
Conns == Clients \cup {MasterConn}

\* keys of the keyspace the commands of the runs name
Keys == {"k", "x"}
Channels == {"ch", "news"}

\* Option<T>: None is the empty sequence, Some(x) a sequence of one element
None == <<>>
Some(x) == <<x>>

Last(s) == s[Len(s)]

RECURSIVE Reverse(_)
Reverse(s) == IF s = <<>> THEN <<>> ELSE Append(Reverse(Tail(s)), Head(s))

\* ------------------------------------------------------------ resp::Value
SimpleString(s) == [t |-> "SimpleString", s |-> s]
SimpleError(s) == [t |-> "SimpleError", s |-> s]
Integer(n) == [t |-> "Integer", n |-> n]
BulkString(s) == [t |-> "BulkString", s |-> s]
Null == [t |-> "Null"]
Array(a) == [t |-> "Array", a |-> a]
Rdb == [t |-> "Rdb"]

\* Value::from_iter over strings: an array of bulk strings
FromIter(strs) == Array([i \in DOMAIN strs |-> BulkString(strs[i])])

\* ------------------------------------------------------------- the codec
\* Value::write_to: the bytes of a frame, as text
RECURSIVE write_to(_)
RECURSIVE write_all(_)
write_all(a) == IF a = <<>> THEN "" ELSE write_to(Head(a)) \o write_all(Tail(a))
write_to(v) ==
    CASE v.t = "SimpleString" -> "+" \o v.s \o "\r\n"
      [] v.t = "SimpleError" -> "-" \o v.s \o "\r\n"
      [] v.t = "Integer" -> ":" \o ToString(v.n) \o "\r\n"
      [] v.t = "BulkString" -> "$" \o ToString(Len(v.s)) \o "\r\n" \o v.s \o "\r\n"
      [] v.t = "Null" -> "$-1\r\n"
      [] v.t = "Array" -> "*" \o ToString(Len(v.a)) \o "\r\n" \o write_all(v.a)

\* take_until_delim: the bytes up to and including '\r', plus one for '\n'
take_until_delim(field) == (Len(field) + 1) + 1

\* take_delim: the two bytes of "\r\n"
take_delim == Len("\r\n")

\* resp::parse of one frame off the wire: the decoded JSON value (a string, or a
\* sequence for an array) and the number of bytes consumed.  The decoder has
\* arms for simple strings, bulk strings and arrays only.
RECURSIVE parse(_)
RECURSIVE parse_items(_)
parse_items(a) ==
    IF a = <<>> THEN [value |-> <<>>, bytes |-> 0]
    ELSE LET h == parse(Head(a))
             r == parse_items(Tail(a))
         IN [value |-> <<h.value>> \o r.value, bytes |-> h.bytes + r.bytes]
parse(v) ==
    CASE v.t = "SimpleString" ->
           [value |-> v.s, bytes |-> 1 + take_until_delim(v.s)]
      [] v.t = "BulkString" ->
           [value |-> v.s,
            bytes |-> 1 + take_until_delim(ToString(Len(v.s))) + Len(v.s) + take_delim]
      [] v.t = "Array" ->
           LET r == parse_items(v.a)
           IN [value |-> r.value,
               bytes |-> 1 + take_until_delim(ToString(Len(v.a))) + r.bytes]

\* The same decoder on the bytes themselves.  A JSON value is a string or an array.
JsonString(str) == [j |-> "String", s |-> str]
JsonArray(a) == [j |-> "Array", a |-> a]
ParseOk(value, n, rest) == [st |-> "ok", value |-> value, bytes |-> n, rest |-> rest]
ParseEnds(how) == [st |-> how, value |-> JsonString(""), bytes |-> 0, rest |-> ""]

\* the value of a run of ASCII digits, as str::parse reads it
digit(ch) ==
    CASE ch = "0" -> 0 [] ch = "1" -> 1 [] ch = "2" -> 2 [] ch = "3" -> 3 [] ch = "4" -> 4
      [] ch = "5" -> 5 [] ch = "6" -> 6 [] ch = "7" -> 7 [] ch = "8" -> 8 [] ch = "9" -> 9
      [] OTHER -> -1
RECURSIVE parse_digits(_)
parse_digits(str) ==
    IF str = "" THEN None
    ELSE LET d == digit(SubSeq(str, Len(str), Len(str)))
         IN IF d < 0 THEN None
            ELSE IF Len(str) = 1 THEN Some(d)
            ELSE LET hi == parse_digits(SubSeq(str, 1, Len(str) - 1))
                 IN IF hi = None THEN None ELSE Some(10 * hi[1] + d)

\* str::parse::<usize>: digits after an optional '+'
parse_usize(str) ==
    IF str # "" /\ SubSeq(str, 1, 1) = "+" THEN parse_digits(SubSeq(str, 2, Len(str)))
    ELSE parse_digits(str)

\* take_until_delim on bytes (resp.rs 57-71): read up to '\r', then '\n' must follow
RECURSIVE find_cr(_, _)
find_cr(b, i) ==
    IF i > Len(b) THEN 0
    ELSE IF SubSeq(b, i, i) = "\r" THEN i
    ELSE find_cr(b, i + 1)
read_until_delim(b) ==
    LET i == find_cr(b, 1)
    IN IF i = 0 \/ i = Len(b) \/ SubSeq(b, i + 1, i + 1) # "\n"
       THEN ParseEnds("failed")
       ELSE ParseOk(JsonString(SubSeq(b, 1, i - 1)), i + 1, SubSeq(b, i + 2, Len(b)))

\* resp::parse (resp.rs 114-184) on the bytes b: the kind byte selects the arm;
\* the arms of SimpleError, Integer and the RESP3 kinds are todo!().
RECURSIVE parse_bytes(_)
RECURSIVE parse_array(_, _)
parse_array(b, len) ==
    IF len = 0 THEN ParseOk(JsonArray(<<>>), 0, b)
    ELSE LET h == parse_bytes(b)
         IN IF h.st # "ok" THEN ParseEnds(h.st)
            ELSE LET r == parse_array(h.rest, len - 1)
                 IN IF r.st # "ok" THEN ParseEnds(r.st)
                    ELSE ParseOk(JsonArray(<<h.value>> \o r.value.a), h.bytes + r.bytes, r.rest)
parse_bytes(b) ==
    IF b = "" THEN ParseEnds("failed")
    ELSE LET kind == SubSeq(b, 1, 1)
             t == read_until_delim(SubSeq(b, 2, Len(b)))
             len == parse_usize(t.value.s)
         IN CASE kind = "+" ->
                   IF t.st # "ok" THEN ParseEnds("failed")
                   ELSE ParseOk(t.value, 1 + t.bytes, t.rest)
              [] kind = "$" ->
                   IF t.st # "ok" \/ len = None THEN ParseEnds("failed")
                   ELSE IF Len(t.rest) < len[1] + 2
                           \/ SubSeq(t.rest, len[1] + 1, len[1] + 2) # "\r\n"
                   THEN ParseEnds("failed")
                   ELSE ParseOk(JsonString(SubSeq(t.rest, 1, len[1])),
                                1 + t.bytes + len[1] + take_delim,
                                SubSeq(t.rest, len[1] + 3, Len(t.rest)))
              [] kind = "*" ->
                   IF t.st # "ok" \/ len = None THEN ParseEnds("failed")
                   ELSE LET r == parse_array(t.rest, len[1])
                        IN IF r.st # "ok" THEN ParseEnds(r.st)
                           ELSE ParseOk(r.value, 1 + t.bytes + r.bytes, r.rest)
              [] kind \in {"-", ":", "#", ",", "(", "!", "=", "%", "|", "~", ">"} ->
                   ParseEnds("panicked")
              [] OTHER -> ParseEnds("failed")

\* ---------------------------------------------------------- command names
\* str::to_lowercase on the spellings the runs use
to_lowercase(s) ==
    CASE s \in {"PING", "ping"} -> "ping"
      [] s \in {"ECHO", "echo"} -> "echo"
      [] s \in {"SET", "set", "Set"} -> "set"
      [] s \in {"GET", "get"} -> "get"
      [] s \in {"RPUSH", "rpush"} -> "rpush"
      [] s \in {"LPUSH", "lpush"} -> "lpush"
      [] s \in {"LRANGE", "lrange"} -> "lrange"
      [] s \in {"LLEN", "llen"} -> "llen"
      [] s \in {"LPOP", "lpop"} -> "lpop"
      [] s \in {"BLPOP", "blpop"} -> "blpop"
      [] s \in {"TYPE", "type"} -> "type"
      [] s \in {"XADD", "xadd"} -> "xadd"
      [] s \in {"XRANGE", "xrange"} -> "xrange"
      [] s \in {"XREAD", "xread"} -> "xread"
      [] s \in {"INCR", "incr"} -> "incr"
      [] s \in {"MULTI", "multi"} -> "multi"
      [] s \in {"EXEC", "exec", "Exec"} -> "exec"
      [] s \in {"DISCARD", "discard"} -> "discard"
      [] s \in {"INFO", "info"} -> "info"
      [] s \in {"REPLCONF", "replconf"} -> "replconf"
      [] s \in {"PSYNC", "psync"} -> "psync"
      [] s \in {"CONFIG", "config"} -> "config"
      [] s \in {"KEYS", "keys"} -> "keys"
      [] s \in {"SUBSCRIBE", "subscribe"} -> "subscribe"
      [] s \in {"PX", "px", "Px"} -> "px"
      [] s \in {"GETACK", "getack"} -> "getack"
      [] OTHER -> s

eq_ignore_ascii_case(a, b) == to_lowercase(a) = to_lowercase(b)

\* Command::from_str: Some(command) or None for "unknown command"
from_str(s) ==
    LET l == to_lowercase(s)
    IN CASE l = "ping" -> Some("Ping")
         [] l = "echo" -> Some("Echo")
         [] l = "set" -> Some("Set")
         [] l = "get" -> Some("Get")
         [] l = "rpush" -> Some("RPush")
         [] l = "lpush" -> Some("LPush")
         [] l = "lrange" -> Some("LRange")
         [] l = "llen" -> Some("LLen")
         [] l = "lpop" -> Some("LPop")
         [] l = "blpop" -> Some("BLPop")
         [] l = "type" -> Some("Type")
         [] l = "xadd" -> Some("XAdd")
         [] l = "xrange" -> Some("XRange")
         [] l = "xread" -> Some("XRead")
         [] l = "incr" -> Some("Incr")
         [] l = "multi" -> Some("Multi")
         [] l = "exec" -> Some("Exec")
         [] l = "discard" -> Some("Discard")
         [] l = "info" -> Some("Info")
         [] l = "replconf" -> Some("ReplConf")
         [] l = "psync" -> Some("PSync")
         [] l = "config" -> Some("Config")
         [] l = "keys" -> Some("Keys")
         [] l = "subscribe" -> Some("Subscribe")
         [] OTHER -> None

\* Command::to_str
to_str(cmd) ==
    CASE cmd = "Ping" -> "PING"
      [] cmd = "Echo" -> "ECHO"
      [] cmd = "Set" -> "SET"
      [] cmd = "Get" -> "GET"
      [] cmd = "RPush" -> "RPUSH"
      [] cmd = "LPush" -> "LPUSH"
      [] cmd = "LRange" -> "LRANGE"
      [] cmd = "LLen" -> "LLEN"
      [] cmd = "LPop" -> "LPOP"
      [] cmd = "BLPop" -> "BLPOP"
      [] cmd = "Type" -> "TYPE"
      [] cmd = "XAdd" -> "XADD"
      [] cmd = "XRange" -> "XRANGE"
      [] cmd = "XRead" -> "XREAD"
      [] cmd = "Incr" -> "INCR"
      [] cmd = "Multi" -> "MULTI"
      [] cmd = "Exec" -> "EXEC"
      [] cmd = "Discard" -> "DISCARD"
      [] cmd = "Info" -> "INFO"
      [] cmd = "ReplConf" -> "REPLCONF"
      [] cmd = "PSync" -> "PSYNC"
      [] cmd = "Config" -> "CONFIG"
      [] cmd = "Keys" -> "KEYS"
      [] cmd = "Subscribe" -> "SUBSCRIBE"

\* Command::is_write
is_write(cmd) == cmd \in {"Set", "RPush", "LPush", "LPop", "BLPop", "XAdd", "Incr"}

\* Command::send_response
send_response(cmd) == cmd = "ReplConf"

\* Command::into_command_value
into_command_value(cmd, args) == FromIter(<<to_str(cmd)>> \o args)

\* str::parse::<i64>: an optional sign, then digits
parse_int(s) ==
    IF s = "" THEN None
    ELSE LET sign == SubSeq(s, 1, 1)
             digits == IF sign \in {"+", "-"} THEN SubSeq(s, 2, Len(s)) ELSE s
             magnitude == parse_digits(digits)
         IN IF magnitude = None THEN None
            ELSE Some(IF sign = "-" THEN 0 - magnitude[1] ELSE magnitude[1])

\* str::parse of an unsigned integer: no '-' sign
parse_unsigned(s) == IF s # "" /\ SubSeq(s, 1, 1) = "-" THEN None ELSE parse_int(s)

\* str::parse::<f64> on the texts the runs use (whole seconds)
parse_f64(s) == IF s = "0.0" THEN Some(0) ELSE parse_int(s)

\* impl From<&str> for MapValueContent
MapValueContent_from(s) ==
    IF parse_int(s) # None THEN [kind |-> "Integer", n |-> parse_int(s)[1]]
    ELSE [kind |-> "String", s |-> s]

List(items) == [kind |-> "List", items |-> items]
MapValue(value, expires_at) == [value |-> value, expires_at |-> expires_at]

\* State::replication_id (40 random alphanumerics in the code)
replication_id == "8x7D"

\* ------------------------------------------------------------------ state
VARIABLES
    \* State (main.rs 110-126)
    role,                \* "Master" or "Replica"
    map,                 \* key -> Option<MapValue>
    waiting_on_list,     \* key -> Option<FIFO of oneshot senders (indices into oneshot)>
    oneshot,             \* the oneshot channels created so far: open, sent, closed
                         \* (receiver dropped) or dropped (sender dropped unsent)
    replicas,            \* the outbox senders registered by PSYNC, in push order
    replication_offset,
    now,                 \* SystemTime::now()
    listening,           \* main has bound the listener and accepts clients
    waiting_on_stream,   \* key -> the senders XREAD BLOCK registered (indices into stream_chan)
    stream_chan,         \* the mpsc channels XREAD BLOCK made: events queued, receiver open
    jset,                \* connection -> the tasks of its XREAD BLOCK: channel, key, start id, done
    channel_listeners,   \* channel -> the outbox senders SUBSCRIBE pushed (connection ids)
    held,                \* conn -> the keys whose store entry the connection holds a guard on
    \* ConnectionState (main.rs 242-249)
    mode,                \* conn -> "Normal" or "Subscribed"
    channels,            \* conn -> the set of channels subscribed to
    \* the connection's mpsc channel and socket
    outbox,              \* conn -> frames sent to tx and not yet received by the writer
    rx_dropped,          \* connections whose writer has ended (rx dropped)
    written,             \* conn -> frames written to the socket, in order
    received,            \* conn -> frames read off the socket, in order
    \* ConnectionState and the reader task's position and locals
    txn,                 \* conn -> Option<Vec<argv>>
    pc,
    bytes,               \* read_commands: the byte count parse returned for the frame
    command,             \* run_command: the argv being run
    txn_inner,           \* read_commands, EXEC: Some(queued commands still to run)
    exec_ret,            \* read_commands, EXEC: the replies collected so far
    ret,                 \* read_commands: the Option<Value> to send
    locals,              \* handler locals: values, og_len, the oneshot of BLPOP
    \* history (not read by any action)
    answers,             \* conn -> the frames the reader decided to send, in order
    applied,             \* the write commands in the order the store applied them
    fanned,              \* the frames fanned out to the replica registry, in order
    reg_at,              \* conn -> Len(fanned) when PSYNC registered it
    exec_n,              \* conn -> Some(n) while the last frame is an EXEC of n commands
    \* the codec on its own: a value, the bytes write_to made of it, parse's result
    codec_value,
    codec_wire,
    codec_parsed,
    \* main (main.rs 508-524): the entries of the snapshot file under --dir, if any
    db_file

streamVars == <<waiting_on_stream, stream_chan, jset>>
subVars == <<channel_listeners, mode, channels>>
codecVars == <<codec_value, codec_wire, codec_parsed, db_file>>
stateVars == <<role, map, waiting_on_list, oneshot, replicas, replication_offset, now,
               listening, held, streamVars, subVars, codecVars>>
chanVars == <<outbox, rx_dropped, written, received>>
connVars == <<txn, pc, bytes, command, txn_inner, exec_ret, ret, locals>>
histVars == <<answers, applied, fanned, reg_at, exec_n>>
vars == <<stateVars, chanVars, connVars, histVars>>

is_replica == role = "Replica"

\* ConnectionState::is_master
is_master(c) == c = MasterConn

NoLocals == [values |-> <<>>, og_len |-> 0, rx |-> 0]

\* State::new and ConnectionState::new, for a process started in role r
\* the state main builds (main.rs 500-524), with the snapshot file still to be
\* read when there is one
InitFile(r, file) ==
    /\ role = r
    /\ db_file = file
    /\ map = [k \in Keys |-> None]
    /\ waiting_on_list = [k \in Keys |-> None]
    /\ oneshot = <<>>
    /\ replicas = <<>>
    /\ replication_offset = 0
    /\ now = 0
    /\ listening = (r = "Master" /\ file = None)
    /\ waiting_on_stream = [k \in Keys |-> <<>>]
    /\ stream_chan = <<>>
    /\ jset = [c \in Conns |-> <<>>]
    /\ channel_listeners = [ch \in Channels |-> <<>>]
    /\ mode = [c \in Conns |-> "Normal"]
    /\ channels = [c \in Conns |-> {}]
    /\ held = [c \in Conns |-> {}]
    /\ outbox = [c \in Conns |-> <<>>]
    /\ rx_dropped = {}
    /\ written = [c \in Conns |-> <<>>]
    /\ received = [c \in Conns |-> <<>>]
    /\ txn = [c \in Conns |-> None]
    /\ pc = [c \in Conns |-> IF c = MasterConn
                             THEN (IF file # None THEN "rdb"
                                   ELSE IF r = "Replica" THEN "hs_connect" ELSE "none")
                             ELSE "read"]
    /\ bytes = [c \in Conns |-> 0]
    /\ command = [c \in Conns |-> <<>>]
    /\ txn_inner = [c \in Conns |-> None]
    /\ exec_ret = [c \in Conns |-> <<>>]
    /\ ret = [c \in Conns |-> None]
    /\ locals = [c \in Conns |-> NoLocals]
    /\ answers = [c \in Conns |-> <<>>]
    /\ applied = <<>>
    /\ fanned = <<>>
    /\ reg_at = [c \in Conns |-> 0]
    /\ exec_n = [c \in Conns |-> None]
    /\ codec_value = None
    /\ codec_wire = ""
    /\ codec_parsed = None

InitRole(r) == InitFile(r, None)

\* the command and arguments run_command split off (main.rs 308-310)
Cmd(c) == IF from_str(command[c][1]) = None THEN "" ELSE from_str(command[c][1])[1]
Args(c) == Tail(command[c])

\* DashMap's get, get_mut, insert, remove and entry wait while another task
\* holds a guard on the entry: connection c can reach the key of its command
FreeFor(c) ==
    LET taken == UNION {held[d] : d \in Conns \ {c}}
    IN IF taken = {} THEN TRUE ELSE Args(c)[1] \notin taken

\* ------------------------------------------- run_command's result, EXEC's loop
\* The reader task ends: how = "failed" (an Err returned through `?`) or
\* "panicked" (unwrap, expect, assert, todo!, an index out of bounds).
Die(c, how) ==
    /\ pc' = [pc EXCEPT ![c] = how]
    /\ UNCHANGED <<ret, command, txn_inner, exec_ret, answers>>

\* The handler returned Ok(v), leaving the connection's buffer as t, after it
\* sent the frames `direct` to the outbox itself.
\* run_command (320-332) turns it into Some(v) or None; read_commands either
\* keeps it as the frame's reply (384) or, inside EXEC (370-375), unwraps it,
\* pushes it and runs the next queued command.
ReturnFromWith(c, v, t, direct) ==
    LET resp == IF send_response(Cmd(c)) THEN Some(v)
                ELSE IF is_replica /\ is_master(c) THEN None
                ELSE Some(v)
    IN IF txn_inner[c] = None
       THEN /\ pc' = [pc EXCEPT ![c] = "respond"]
            /\ ret' = [ret EXCEPT ![c] = resp]
            /\ txn' = [txn EXCEPT ![c] = t]
            /\ answers' = [answers EXCEPT ![c] = @ \o direct \o resp]
            /\ UNCHANGED <<command, txn_inner, exec_ret>>
       ELSE IF resp = None
       THEN /\ pc' = [pc EXCEPT ![c] = "panicked"]
            /\ txn' = [txn EXCEPT ![c] = t]
            /\ answers' = [answers EXCEPT ![c] = @ \o direct]
            /\ UNCHANGED <<ret, command, txn_inner, exec_ret>>
       ELSE LET acc == Append(exec_ret[c], v)
                rest == txn_inner[c][1]
            IN IF rest = <<>>
               THEN /\ pc' = [pc EXCEPT ![c] = "respond"]
                    /\ ret' = [ret EXCEPT ![c] = Some(Array(acc))]
                    /\ txn' = [txn EXCEPT ![c] = None]
                    /\ txn_inner' = [txn_inner EXCEPT ![c] = None]
                    /\ exec_ret' = [exec_ret EXCEPT ![c] = <<>>]
                    /\ answers' = [answers EXCEPT ![c] = @ \o direct \o <<Array(acc)>>]
                    /\ UNCHANGED command
               ELSE /\ pc' = [pc EXCEPT ![c] = "run"]
                    /\ command' = [command EXCEPT ![c] = Head(rest)]
                    /\ txn_inner' = [txn_inner EXCEPT ![c] = Some(Tail(rest))]
                    /\ exec_ret' = [exec_ret EXCEPT ![c] = acc]
                    /\ txn' = [txn EXCEPT ![c] = t]
                    /\ answers' = [answers EXCEPT ![c] = @ \o direct]
                    /\ UNCHANGED ret

ReturnFrom(c, v, t) == ReturnFromWith(c, v, t, <<>>)

\* ----------------------------------------------------------- read_commands
\* A frame arrives on an accepted connection whose reader is at the top of its
\* loop; no transaction buffer: run_command (384).
ReadRun(c, frame) ==
    /\ pc[c] = "read" /\ txn[c] = None
    /\ (is_master(c) \/ listening)
    /\ LET p == parse(frame)
       IN /\ received' = [received EXCEPT ![c] = Append(@, frame)]
          /\ bytes' = [bytes EXCEPT ![c] = p.bytes]
          /\ command' = [command EXCEPT ![c] = p.value]
          /\ pc' = [pc EXCEPT ![c] = IF p.value = <<>> THEN "panicked" ELSE "run"]
    /\ exec_n' = [exec_n EXCEPT ![c] = None]
    /\ UNCHANGED <<stateVars, outbox, rx_dropped, written, txn, txn_inner, exec_ret, ret,
                   locals, answers, applied, fanned, reg_at>>

\* ReadQueue with the buffer ignored: the frame is dispatched at once.
ReadQueue_Dispatch(c, frame) ==
    /\ pc[c] = "read" /\ txn[c] # None
    /\ (is_master(c) \/ listening)
    /\ LET p == parse(frame)
       IN /\ p.value # <<>>
          /\ ~eq_ignore_ascii_case(p.value[1], "exec")
          /\ ~eq_ignore_ascii_case(p.value[1], "discard")
          /\ received' = [received EXCEPT ![c] = Append(@, frame)]
          /\ bytes' = [bytes EXCEPT ![c] = p.bytes]
          /\ command' = [command EXCEPT ![c] = p.value]
    /\ pc' = [pc EXCEPT ![c] = "run"]
    /\ exec_n' = [exec_n EXCEPT ![c] = None]
    /\ UNCHANGED <<stateVars, outbox, rx_dropped, written, txn, txn_inner, exec_ret, ret,
                   locals, answers, applied, fanned, reg_at>>

\* A frame other than EXEC and DISCARD arrives while the buffer is present (379-382).
ReadQueue(c, frame) ==
    /\ pc[c] = "read" /\ txn[c] # None
    /\ (is_master(c) \/ listening)
    /\ LET p == parse(frame)
       IN /\ p.value # <<>>
          /\ ~eq_ignore_ascii_case(p.value[1], "exec")
          /\ ~eq_ignore_ascii_case(p.value[1], "discard")
          /\ received' = [received EXCEPT ![c] = Append(@, frame)]
          /\ bytes' = [bytes EXCEPT ![c] = p.bytes]
          /\ txn' = [txn EXCEPT ![c] = Some(Append(txn[c][1], p.value))]
    /\ ret' = [ret EXCEPT ![c] = Some(SimpleString("QUEUED"))]
    /\ answers' = [answers EXCEPT ![c] = Append(@, SimpleString("QUEUED"))]
    /\ pc' = [pc EXCEPT ![c] = "respond"]
    /\ exec_n' = [exec_n EXCEPT ![c] = None]
    /\ UNCHANGED <<stateVars, outbox, rx_dropped, written, command, txn_inner, exec_ret,
                   locals, applied, fanned, reg_at>>

\* EXEC arrives while the buffer is present (367-375): the buffer is taken and
\* its commands are run one after the other.
ReadExec(c, frame) ==
    /\ pc[c] = "read" /\ txn[c] # None
    /\ (is_master(c) \/ listening)
    /\ LET p == parse(frame)
           buf == txn[c][1]
       IN /\ p.value # <<>>
          /\ eq_ignore_ascii_case(p.value[1], "exec")
          /\ received' = [received EXCEPT ![c] = Append(@, frame)]
          /\ bytes' = [bytes EXCEPT ![c] = p.bytes]
          /\ txn' = [txn EXCEPT ![c] = None]
          /\ exec_n' = [exec_n EXCEPT ![c] = Some(Len(buf))]
          /\ IF buf = <<>>
             THEN /\ ret' = [ret EXCEPT ![c] = Some(Array(<<>>))]
                  /\ answers' = [answers EXCEPT ![c] = Append(@, Array(<<>>))]
                  /\ pc' = [pc EXCEPT ![c] = "respond"]
                  /\ UNCHANGED <<command, txn_inner, exec_ret>>
             ELSE /\ command' = [command EXCEPT ![c] = Head(buf)]
                  /\ txn_inner' = [txn_inner EXCEPT ![c] = Some(Tail(buf))]
                  /\ exec_ret' = [exec_ret EXCEPT ![c] = <<>>]
                  /\ pc' = [pc EXCEPT ![c] = "run"]
                  /\ UNCHANGED <<ret, answers>>
    /\ UNCHANGED <<stateVars, outbox, rx_dropped, written, locals, applied, fanned, reg_at>>

\* ReadDiscard with the buffer left in place
ReadDiscard_KeepsBuffer(c, frame) ==
    /\ pc[c] = "read" /\ txn[c] # None
    /\ (is_master(c) \/ listening)
    /\ LET p == parse(frame)
       IN /\ p.value # <<>>
          /\ ~eq_ignore_ascii_case(p.value[1], "exec")
          /\ eq_ignore_ascii_case(p.value[1], "discard")
          /\ received' = [received EXCEPT ![c] = Append(@, frame)]
          /\ bytes' = [bytes EXCEPT ![c] = p.bytes]
    /\ txn' = txn
    /\ ret' = [ret EXCEPT ![c] = Some(SimpleString("OK"))]
    /\ answers' = [answers EXCEPT ![c] = Append(@, SimpleString("OK"))]
    /\ pc' = [pc EXCEPT ![c] = "respond"]
    /\ exec_n' = [exec_n EXCEPT ![c] = None]
    /\ UNCHANGED <<stateVars, outbox, rx_dropped, written, command, txn_inner, exec_ret,
                   locals, applied, fanned, reg_at>>

\* DISCARD arrives while the buffer is present (376-378).
ReadDiscard(c, frame) ==
    /\ pc[c] = "read" /\ txn[c] # None
    /\ (is_master(c) \/ listening)
    /\ LET p == parse(frame)
       IN /\ p.value # <<>>
          /\ ~eq_ignore_ascii_case(p.value[1], "exec")
          /\ eq_ignore_ascii_case(p.value[1], "discard")
          /\ received' = [received EXCEPT ![c] = Append(@, frame)]
          /\ bytes' = [bytes EXCEPT ![c] = p.bytes]
    /\ txn' = [txn EXCEPT ![c] = None]
    /\ ret' = [ret EXCEPT ![c] = Some(SimpleString("OK"))]
    /\ answers' = [answers EXCEPT ![c] = Append(@, SimpleString("OK"))]
    /\ pc' = [pc EXCEPT ![c] = "respond"]
    /\ exec_n' = [exec_n EXCEPT ![c] = None]
    /\ UNCHANGED <<stateVars, outbox, rx_dropped, written, command, txn_inner, exec_ret,
                   locals, applied, fanned, reg_at>>

\* ------------------------------------------------------------- run_command
\* a fan-out that puts the frame at the head of the outboxes of all but the first replica
retain_send_Front(reps, obox, dropped, frame) ==
    LET live == SelectSeq(reps, LAMBDA r : r \notin dropped)
    IN [replicas |-> live,
        outbox |-> [r \in Conns |->
                      IF live # <<>> /\ r = live[1] THEN Append(obox[r], frame)
                      ELSE [i \in 1..Len(SelectSeq(live, LAMBDA q : q = r)) |-> frame]
                           \o obox[r]]]

\* replicas.write().await.retain(|replica| replica.send(frame).is_ok()):
\* every registered outbox whose receiver lives gets the frame; the others
\* are dropped from the registry.
retain_send(reps, obox, dropped, frame) ==
    LET live == SelectSeq(reps, LAMBDA r : r \notin dropped)
    IN [replicas |-> live,
        outbox |-> [r \in Conns |->
                      obox[r] \o [i \in 1..Len(SelectSeq(live, LAMBDA q : q = r)) |-> frame]]]

\* run_command up to the call of the handler (308-318): the command name is
\* parsed; a write command is sent to every replica under the registry's lock.
\* Command::execute then matches on the command and the connection's mode.
RunCommand(c) ==
    /\ pc[c] = "run"
    /\ IF from_str(command[c][1]) = None
       THEN /\ Die(c, "failed")
            /\ UNCHANGED <<replicas, outbox, fanned>>
       ELSE /\ pc' = [pc EXCEPT ![c] = IF mode[c] = "Normal" THEN "execute"
                                       ELSE "execute_subscribed"]
            /\ UNCHANGED <<ret, command, txn_inner, exec_ret, answers>>
            /\ IF is_write(Cmd(c))
               THEN LET frame == into_command_value(Cmd(c), Args(c))
                        f == retain_send(replicas, outbox, rx_dropped, frame)
                    IN /\ replicas' = f.replicas
                       /\ outbox' = f.outbox
                       /\ fanned' = Append(fanned, frame)
               ELSE UNCHANGED <<replicas, outbox, fanned>>
    /\ UNCHANGED <<role, held, codecVars, streamVars, subVars, map, waiting_on_list, oneshot, replication_offset, now, listening,
                   rx_dropped, written, received, txn, bytes, locals, applied, reg_at,
                   exec_n>>

\* Respond with the offset advanced by frames of every connection
Respond_AnyConn(c) ==
    /\ pc[c] = "respond"
    /\ replication_offset' = replication_offset + bytes[c]
    /\ IF ret[c] # None /\ c \in rx_dropped
       THEN /\ pc' = [pc EXCEPT ![c] = "failed"]
            /\ UNCHANGED outbox
       ELSE /\ pc' = [pc EXCEPT ![c] = "read"]
            /\ outbox' = [outbox EXCEPT ![c] = @ \o ret[c]]
    /\ ret' = [ret EXCEPT ![c] = None]
    /\ UNCHANGED <<role, held, codecVars, streamVars, subVars, map, waiting_on_list, oneshot, replicas, now, listening, rx_dropped,
                   written, received, txn, bytes, command, txn_inner, exec_ret, locals,
                   histVars>>

\* read_commands after the frame was handled (387-397): a frame from the master
\* advances the replication offset, and the reply, if any, goes to the outbox.
Respond(c) ==
    /\ pc[c] = "respond"
    /\ replication_offset' = IF is_master(c) THEN replication_offset + bytes[c]
                             ELSE replication_offset
    /\ IF ret[c] # None /\ c \in rx_dropped
       THEN /\ pc' = [pc EXCEPT ![c] = "failed"]
            /\ UNCHANGED outbox
       ELSE /\ pc' = [pc EXCEPT ![c] = "read"]
            /\ outbox' = [outbox EXCEPT ![c] = @ \o ret[c]]
    /\ ret' = [ret EXCEPT ![c] = None]
    /\ UNCHANGED <<role, held, codecVars, streamVars, subVars, map, waiting_on_list, oneshot, replicas, now, listening, rx_dropped,
                   written, received, txn, bytes, command, txn_inner, exec_ret, locals,
                   histVars>>

\* a writer that takes the newest frame of the outbox
Write_Newest(c) ==
    /\ c \notin rx_dropped
    /\ outbox[c] # <<>>
    /\ written' = [written EXCEPT ![c] = Append(@, Last(outbox[c]))]
    /\ outbox' = [outbox EXCEPT ![c] = SubSeq(@, 1, Len(@) - 1)]
    /\ UNCHANGED <<stateVars, rx_dropped, received, connVars, histVars>>

\* handle_connection's writer loop (423-435): the next frame of the outbox is
\* written to the socket.
Write(c) ==
    /\ c \notin rx_dropped
    /\ outbox[c] # <<>>
    /\ written' = [written EXCEPT ![c] = Append(@, Head(outbox[c]))]
    /\ outbox' = [outbox EXCEPT ![c] = Tail(@)]
    /\ UNCHANGED <<stateVars, rx_dropped, received, connVars, histVars>>

\* handle_connection (431-434): writing a frame to the socket fails (the peer is
\* gone); the writer returns through `?`, which drops rx and what it still held.
WriteFail(c) ==
    /\ c \notin rx_dropped
    /\ outbox[c] # <<>>
    /\ rx_dropped' = rx_dropped \cup {c}
    /\ outbox' = [outbox EXCEPT ![c] = <<>>]
    /\ UNCHANGED <<stateVars, written, received, connVars, histVars>>

\* ---------------------------------------------------------------- handlers
\* Every handler is entered with pc = "execute" (Command::execute, mode Normal).
Ping(c) ==
    /\ pc[c] = "execute" /\ Cmd(c) = "Ping"
    /\ ReturnFrom(c, SimpleString("PONG"), txn[c])
    /\ UNCHANGED <<stateVars, chanVars, bytes, locals, applied, fanned, reg_at, exec_n>>

\* Command::execute, Echo (mod.rs 218)
Echo(c) ==
    /\ pc[c] = "execute" /\ Cmd(c) = "Echo"
    /\ IF Args(c) = <<>>
       THEN Die(c, "panicked") /\ UNCHANGED txn
       ELSE ReturnFrom(c, BulkString(Args(c)[1]), txn[c])
    /\ UNCHANGED <<stateVars, chanVars, bytes, locals, applied, fanned, reg_at, exec_n>>

\* set (mod.rs 304-326)
set(c) ==
    /\ pc[c] = "execute" /\ Cmd(c) = "Set"
    /\ FreeFor(c)
    /\ LET args == Args(c)
           px == Len(args) > 2 /\ eq_ignore_ascii_case(args[3], "px")
       IN IF Len(args) < 2 \/ (px /\ Len(args) < 4)
          THEN /\ Die(c, "panicked")
               /\ UNCHANGED <<map, applied, txn>>
          ELSE IF px /\ parse_unsigned(args[4]) = None
          THEN /\ Die(c, "failed")
               /\ UNCHANGED <<map, applied, txn>>
          ELSE LET expires_at == IF px THEN Some(now + parse_unsigned(args[4])[1])
                                 ELSE None
               IN /\ map' = [map EXCEPT ![args[1]] =
                               Some(MapValue(MapValueContent_from(args[2]), expires_at))]
                  /\ applied' = Append(applied, into_command_value("Set", args))
                  /\ ReturnFrom(c, BulkString("OK"), txn[c])
    /\ UNCHANGED <<role, held, codecVars, streamVars, subVars, waiting_on_list, oneshot, replicas, replication_offset, now,
                   listening, chanVars, bytes, locals, fanned, reg_at, exec_n>>

\* get (mod.rs 328-359): the entry is read under a shared guard; an expired
\* entry is removed in a second access, after the guard was dropped.
get(c) ==
    /\ pc[c] = "execute" /\ Cmd(c) = "Get"
    /\ FreeFor(c)
    /\ IF Args(c) = <<>>
       THEN Die(c, "panicked") /\ UNCHANGED txn
       ELSE LET e == map[Args(c)[1]]
            IN IF e = None THEN ReturnFrom(c, Null, txn[c])
               ELSE IF e[1].expires_at = None \/ now < e[1].expires_at[1]
               THEN ReturnFrom(c, CASE e[1].value.kind = "Integer" ->
                                         BulkString(ToString(e[1].value.n))
                                    [] e[1].value.kind = "String" ->
                                         BulkString(e[1].value.s)
                                    [] OTHER -> Null,
                               txn[c])
               ELSE /\ pc' = [pc EXCEPT ![c] = "get_remove"]
                    /\ UNCHANGED <<ret, command, txn_inner, exec_ret, answers, txn>>
    /\ UNCHANGED <<stateVars, chanVars, bytes, locals, applied, fanned, reg_at, exec_n>>

get_remove(c) ==
    /\ pc[c] = "get_remove"
    /\ FreeFor(c)
    /\ map' = [map EXCEPT ![Args(c)[1]] = None]
    /\ ReturnFrom(c, Null, txn[c])
    /\ UNCHANGED <<role, held, codecVars, streamVars, subVars, waiting_on_list, oneshot, replicas, replication_offset, now,
                   listening, chanVars, bytes, locals, applied, fanned, reg_at, exec_n>>

\* i64::MAX and i64::MIN, at the width of the integers of this model (32 bits)
I64_MAX == 2147483647
I64_MIN == (-I64_MAX) - 1

\* incr (transaction.rs 7-41): the entry is looked up and an integer is
\* incremented under the entry's guard; `*val += 1` on i64::MAX panics in a
\* build with overflow checks and wraps to i64::MIN in one without
incr(c) ==
    /\ pc[c] = "execute" /\ Cmd(c) = "Incr"
    /\ FreeFor(c)
    /\ IF Args(c) = <<>>
       THEN /\ Die(c, "failed")
            /\ UNCHANGED <<map, applied, txn>>
       ELSE LET key == Args(c)[1]
                e == map[key]
            IN IF e = None
               THEN /\ pc' = [pc EXCEPT ![c] = "incr_insert"]
                    /\ UNCHANGED <<ret, command, txn_inner, exec_ret, answers, txn, map,
                                   applied>>
               ELSE IF e[1].value.kind = "Integer" /\ e[1].value.n = I64_MAX
               THEN \/ /\ Die(c, "panicked")
                       /\ UNCHANGED <<map, applied, txn>>
                    \/ /\ map' = [map EXCEPT ![key] = Some([e[1] EXCEPT !.value.n = I64_MIN])]
                       /\ applied' = Append(applied, into_command_value("Incr", Args(c)))
                       /\ ReturnFrom(c, Integer(I64_MIN), txn[c])
               ELSE IF e[1].value.kind = "Integer"
               THEN /\ map' = [map EXCEPT ![key] = Some([e[1] EXCEPT !.value.n = @ + 1])]
                    /\ applied' = Append(applied, into_command_value("Incr", Args(c)))
                    /\ ReturnFrom(c, Integer(e[1].value.n + 1), txn[c])
               ELSE /\ UNCHANGED <<map, applied>>
                    /\ ReturnFrom(c,
                          SimpleError("ERR value is not an integer or out of range"),
                          txn[c])
    /\ UNCHANGED <<role, held, codecVars, streamVars, subVars, waiting_on_list, oneshot, replicas, replication_offset, now,
                   listening, chanVars, bytes, locals, fanned, reg_at, exec_n>>

\* incr, no entry found (29-38): the integer 1 is inserted
incr_insert(c) ==
    /\ pc[c] = "incr_insert"
    /\ FreeFor(c)
    /\ map' = [map EXCEPT ![Args(c)[1]] =
                 Some(MapValue([kind |-> "Integer", n |-> 1], None))]
    /\ applied' = Append(applied, into_command_value("Incr", Args(c)))
    /\ ReturnFrom(c, Integer(1), txn[c])
    /\ UNCHANGED <<role, held, codecVars, streamVars, subVars, waiting_on_list, oneshot, replicas, replication_offset, now,
                   listening, chanVars, bytes, locals, fanned, reg_at, exec_n>>

\* ------------------------------------------------------------------ lists
\* a handler moves on to its next access of the shared maps
Goto(c, p) ==
    /\ pc' = [pc EXCEPT ![c] = p]
    /\ UNCHANGED <<ret, command, txn_inner, exec_ret, answers, txn>>

\* oneshot::channel(): the receiver waits; send stores the value unless the
\* receiver was dropped; a sender dropped unsent fails the receiver
OpenChannel == [st |-> "open", v |-> ""]
Sent(v) == [st |-> "sent", v |-> v]
Closed == [st |-> "closed", v |-> ""]
SenderDropped == [st |-> "dropped", v |-> ""]

\* waiting_on_list.get_mut(key): the key's waiters, none when it has no entry
waiting_of(key) == IF waiting_on_list[key] = None THEN <<>> ELSE waiting_on_list[key][1]

\* the deque as a loop that ran under the entry's guard left it; a key without
\* an entry gets none
put_waiting(key, w) ==
    IF waiting_on_list[key] = None THEN waiting_on_list
    ELSE [waiting_on_list EXCEPT ![key] = Some(w)]

\* the loop that hands items to waiters from the front (list.rs 23-37, 49-63,
\* 117-131): a waiter whose receiver is gone is dropped and the item is kept
RECURSIVE drain_front(_, _, _)
drain_front(waiting, items, os) ==
    IF waiting = <<>> \/ items = <<>>
    THEN [waiting |-> waiting, items |-> items, oneshot |-> os]
    ELSE IF os[Head(waiting)].st = "open"
    THEN drain_front(Tail(waiting), Tail(items),
                     [os EXCEPT ![Head(waiting)] = Sent(Head(items))])
    ELSE drain_front(Tail(waiting), items, os)

\* lpush's first loop (list.rs 89-103): items are handed over from the back
RECURSIVE drain_back(_, _, _)
drain_back(waiting, items, os) ==
    IF waiting = <<>> \/ items = <<>>
    THEN [waiting |-> waiting, items |-> items, oneshot |-> os]
    ELSE IF os[Head(waiting)].st = "open"
    THEN drain_back(Tail(waiting), SubSeq(items, 1, Len(items) - 1),
                    [os EXCEPT ![Head(waiting)] = Sent(Last(items))])
    ELSE drain_back(Tail(waiting), items, os)

\* rpush_insert replying with the length of the list it stores
rpush_insert_StoredLen(c) ==
    /\ pc[c] = "rpush_insert"
    /\ FreeFor(c)
    /\ map' = [map EXCEPT ![Args(c)[1]] = Some(MapValue(List(locals[c].values), None))]
    /\ locals' = [locals EXCEPT ![c] = NoLocals]
    /\ ReturnFrom(c, Integer(Len(locals[c].values)), txn[c])
    /\ UNCHANGED <<role, held, codecVars, streamVars, subVars, waiting_on_list, oneshot, replicas, replication_offset, now,
                   listening, chanVars, bytes, applied, fanned, reg_at, exec_n>>

\* rpush (list.rs 7-76): the entry is looked up; an existing list is extended
\* and drained to the waiters under the entry's guard
rpush(c) ==
    /\ pc[c] = "execute" /\ Cmd(c) = "RPush"
    /\ FreeFor(c)
    /\ IF Len(Args(c)) < 2
       THEN /\ Die(c, "panicked")
            /\ UNCHANGED <<txn, map, waiting_on_list, oneshot, locals>>
       ELSE LET key == Args(c)[1]
                values == Tail(Args(c))
                e == map[key]
            IN IF e = None
               THEN /\ Goto(c, "rpush_drain")
                    /\ locals' = [locals EXCEPT ![c] =
                                    [values |-> values, og_len |-> Len(values), rx |-> 0]]
                    /\ UNCHANGED <<map, waiting_on_list, oneshot>>
               ELSE IF e[1].value.kind # "List"
               THEN /\ Die(c, "panicked")
                    /\ UNCHANGED <<txn, map, waiting_on_list, oneshot, locals>>
               ELSE LET items == e[1].value.items \o values
                        d == drain_front(waiting_of(key), items, oneshot)
                    IN /\ map' = [map EXCEPT ![key] =
                                    Some([e[1] EXCEPT !.value.items = d.items])]
                       /\ waiting_on_list' = put_waiting(key, d.waiting)
                       /\ oneshot' = d.oneshot
                       /\ ReturnFrom(c, Integer(Len(items)), txn[c])
                       /\ UNCHANGED locals
    /\ UNCHANGED <<role, held, codecVars, streamVars, subVars, replicas, replication_offset, now, listening, chanVars, bytes,
                   applied, fanned, reg_at, exec_n>>

\* rpush, no entry found: the values are handed to the waiters (45-63)
rpush_drain(c) ==
    /\ pc[c] = "rpush_drain"
    /\ LET key == Args(c)[1]
           d == drain_front(waiting_of(key), locals[c].values, oneshot)
       IN /\ waiting_on_list' = put_waiting(key, d.waiting)
          /\ oneshot' = d.oneshot
          /\ locals' = [locals EXCEPT ![c].values = d.items]
    /\ Goto(c, "rpush_insert")
    /\ UNCHANGED <<role, held, codecVars, streamVars, subVars, map, replicas, replication_offset, now, listening, chanVars, bytes,
                   applied, fanned, reg_at, exec_n>>

\* rpush, no entry found: what is left is inserted as the key's list (65-72)
rpush_insert(c) ==
    /\ pc[c] = "rpush_insert"
    /\ FreeFor(c)
    /\ map' = [map EXCEPT ![Args(c)[1]] = Some(MapValue(List(locals[c].values), None))]
    /\ locals' = [locals EXCEPT ![c] = NoLocals]
    /\ ReturnFrom(c, Integer(locals[c].og_len), txn[c])
    /\ UNCHANGED <<role, held, codecVars, streamVars, subVars, waiting_on_list, oneshot, replicas, replication_offset, now,
                   listening, chanVars, bytes, applied, fanned, reg_at, exec_n>>

\* lpush (list.rs 78-103): the values are first handed to the waiters
lpush(c) ==
    /\ pc[c] = "execute" /\ Cmd(c) = "LPush"
    /\ IF Len(Args(c)) < 2
       THEN /\ Die(c, "panicked")
            /\ UNCHANGED <<txn, waiting_on_list, oneshot, locals>>
       ELSE LET key == Args(c)[1]
                values == Tail(Args(c))
                d == drain_back(waiting_of(key), values, oneshot)
            IN /\ waiting_on_list' = put_waiting(key, d.waiting)
               /\ oneshot' = d.oneshot
               /\ locals' = [locals EXCEPT ![c] =
                               [values |-> d.items, og_len |-> Len(values), rx |-> 0]]
               /\ Goto(c, "lpush_lookup")
    /\ UNCHANGED <<role, held, codecVars, streamVars, subVars, map, replicas, replication_offset, now, listening, chanVars, bytes,
                   applied, fanned, reg_at, exec_n>>

\* lpush (105-137): the entry is looked up; an existing list gets what is left
\* at its head and is drained to the waiters under the entry's guard
lpush_lookup(c) ==
    /\ pc[c] = "lpush_lookup"
    /\ FreeFor(c)
    /\ LET key == Args(c)[1]
           e == map[key]
       IN IF e = None
          THEN /\ Goto(c, "lpush_insert")
               /\ UNCHANGED <<map, waiting_on_list, oneshot, locals>>
          ELSE IF e[1].value.kind # "List"
          THEN /\ Die(c, "panicked")
               /\ UNCHANGED <<txn, map, waiting_on_list, oneshot, locals>>
          ELSE LET len == Len(e[1].value.items) + locals[c].og_len
                   items == Reverse(locals[c].values) \o e[1].value.items
                   d == drain_front(waiting_of(key), items, oneshot)
               IN /\ map' = [map EXCEPT ![key] =
                               Some([e[1] EXCEPT !.value.items = d.items])]
                  /\ waiting_on_list' = put_waiting(key, d.waiting)
                  /\ oneshot' = d.oneshot
                  /\ locals' = [locals EXCEPT ![c] = NoLocals]
                  /\ ReturnFrom(c, Integer(len), txn[c])
    /\ UNCHANGED <<role, held, codecVars, streamVars, subVars, replicas, replication_offset, now, listening, chanVars, bytes,
                   applied, fanned, reg_at, exec_n>>

\* lpush_insert storing the values in argument order
lpush_insert_InOrder(c) ==
    /\ pc[c] = "lpush_insert"
    /\ FreeFor(c)
    /\ map' = [map EXCEPT ![Args(c)[1]] = Some(MapValue(List(locals[c].values), None))]
    /\ locals' = [locals EXCEPT ![c] = NoLocals]
    /\ ReturnFrom(c, Integer(locals[c].og_len), txn[c])
    /\ UNCHANGED <<role, held, codecVars, streamVars, subVars, waiting_on_list, oneshot, replicas,
                   replication_offset, now, listening, chanVars, bytes, applied, fanned, reg_at,
                   exec_n>>

\* lpush, no entry found: what is left is inserted in reverse (138-147)
lpush_insert(c) ==
    /\ pc[c] = "lpush_insert"
    /\ FreeFor(c)
    /\ map' = [map EXCEPT ![Args(c)[1]] =
                 Some(MapValue(List(Reverse(locals[c].values)), None))]
    /\ locals' = [locals EXCEPT ![c] = NoLocals]
    /\ ReturnFrom(c, Integer(locals[c].og_len), txn[c])
    /\ UNCHANGED <<role, held, codecVars, streamVars, subVars, waiting_on_list, oneshot, replicas, replication_offset, now,
                   listening, chanVars, bytes, applied, fanned, reg_at, exec_n>>

\* blpop's timeout (list.rs 266-270): Some(seconds) when the argument is > 0
blpop_timeout(args) ==
    IF Len(args) < 2 THEN None
    ELSE IF parse_f64(args[2])[1] > 0 THEN parse_f64(args[2]) ELSE None

\* blpop (list.rs 298-316): a non-empty list is popped under the entry's guard
\* and the guard ends with the handler; an empty list leaves the handler holding
\* the guard it still has to drop; an absent key gives no guard
blpop(c) ==
    /\ pc[c] = "execute" /\ Cmd(c) = "BLPop"
    /\ FreeFor(c)
    /\ IF Args(c) = <<>> \/ (Len(Args(c)) >= 2 /\ parse_f64(Args(c)[2]) = None)
       THEN /\ Die(c, "panicked")
            /\ UNCHANGED <<txn, map>>
       ELSE LET key == Args(c)[1]
                e == map[key]
            IN IF e = None
               THEN Goto(c, "blpop_register") /\ UNCHANGED map
               ELSE IF e[1].value.kind # "List"
               THEN Die(c, "panicked") /\ UNCHANGED <<txn, map>>
               ELSE IF e[1].value.items = <<>>
               THEN Goto(c, "blpop_drop") /\ UNCHANGED map
               ELSE /\ map' = [map EXCEPT ![key] =
                                 Some([e[1] EXCEPT !.value.items = Tail(@)])]
                    /\ ReturnFrom(c, FromIter(<<key, Head(e[1].value.items)>>), txn[c])
    /\ held' = IF pc'[c] = "blpop_drop" THEN [held EXCEPT ![c] = {Args(c)[1]}] ELSE held
    /\ UNCHANGED <<role, codecVars, streamVars, subVars, waiting_on_list, oneshot, replicas, replication_offset, now,
                   listening, chanVars, bytes, locals, applied, fanned, reg_at, exec_n>>

\* blpop with the guard of the empty list kept into the wait
blpop_drop_KeepsGuard(c) ==
    /\ pc[c] = "blpop_drop"
    /\ Goto(c, "blpop_register")
    /\ UNCHANGED <<stateVars, chanVars, txn, bytes, locals, applied, fanned, reg_at, exec_n>>

\* blpop (list.rs 305): drop(list) releases the guard before wait() is called
blpop_drop(c) ==
    /\ pc[c] = "blpop_drop"
    /\ held' = [held EXCEPT ![c] = {}]
    /\ Goto(c, "blpop_register")
    /\ UNCHANGED <<role, codecVars, streamVars, subVars, map, waiting_on_list, oneshot, replicas,
                   replication_offset, now, listening, chanVars, txn, bytes, locals, applied,
                   fanned, reg_at, exec_n>>

\* blpop's wait (274-277): a oneshot channel is made; when the key has a deque
\* of waiters the sender is appended to it under the entry's guard
blpop_register(c) ==
    /\ pc[c] = "blpop_register"
    /\ oneshot' = Append(oneshot, OpenChannel)
    /\ locals' = [locals EXCEPT ![c].rx = Len(oneshot) + 1]
    /\ IF waiting_on_list[Args(c)[1]] = None
       THEN Goto(c, "blpop_insert") /\ UNCHANGED waiting_on_list
       ELSE /\ waiting_on_list' = put_waiting(Args(c)[1],
                                      Append(waiting_of(Args(c)[1]), Len(oneshot) + 1))
            /\ Goto(c, "blpop_wait")
    /\ UNCHANGED <<role, held, codecVars, streamVars, subVars, map, replicas, replication_offset, now, listening, chanVars, bytes,
                   applied, fanned, reg_at, exec_n>>

\* blpop's wait (278-280): no deque was found, so one holding the sender is
\* inserted; a deque inserted meanwhile is replaced and its senders are dropped
blpop_insert(c) ==
    /\ pc[c] = "blpop_insert"
    /\ waiting_on_list' = [waiting_on_list EXCEPT ![Args(c)[1]] = Some(<<locals[c].rx>>)]
    /\ oneshot' = [i \in DOMAIN oneshot |->
                     IF \E j \in DOMAIN waiting_of(Args(c)[1]) :
                           waiting_of(Args(c)[1])[j] = i
                     THEN (IF oneshot[i].st = "open" THEN SenderDropped ELSE oneshot[i])
                     ELSE oneshot[i]]
    /\ Goto(c, "blpop_wait")
    /\ UNCHANGED <<role, held, codecVars, streamVars, subVars, map, replicas, replication_offset, now, listening, chanVars, bytes,
                   locals, applied, fanned, reg_at, exec_n>>

\* blpop's wait (283-293): the receiver resolves with the value sent
blpop_recv(c) ==
    /\ pc[c] = "blpop_wait"
    /\ oneshot[locals[c].rx].st = "sent"
    /\ locals' = [locals EXCEPT ![c] = NoLocals]
    /\ ReturnFrom(c, FromIter(<<Args(c)[1], oneshot[locals[c].rx].v>>), txn[c])
    /\ UNCHANGED <<stateVars, chanVars, bytes, applied, fanned, reg_at, exec_n>>

\* blpop's wait (284-287): the timeout elapses first; the receiver is dropped
blpop_elapsed(c) ==
    /\ pc[c] = "blpop_wait"
    /\ blpop_timeout(Args(c)) # None
    /\ oneshot[locals[c].rx].st = "open"
    /\ oneshot' = [oneshot EXCEPT ![locals[c].rx] = Closed]
    /\ locals' = [locals EXCEPT ![c] = NoLocals]
    /\ ReturnFrom(c, Null, txn[c])
    /\ UNCHANGED <<role, held, codecVars, streamVars, subVars, map, waiting_on_list, replicas, replication_offset, now, listening,
                   chanVars, bytes, applied, fanned, reg_at, exec_n>>

\* blpop's wait (283-291): the sender was dropped unsent; the receive fails and
\* the handler returns the error
blpop_recv_err(c) ==
    /\ pc[c] = "blpop_wait"
    /\ oneshot[locals[c].rx].st = "dropped"
    /\ locals' = [locals EXCEPT ![c] = NoLocals]
    /\ Die(c, "failed")
    /\ UNCHANGED <<stateVars, chanVars, txn, bytes, applied, fanned, reg_at, exec_n>>

\* lpop (list.rs 223-257): with a count, up to count items are popped from the
\* front into an array; without, the head or null
lpop(c) ==
    /\ pc[c] = "execute" /\ Cmd(c) = "LPop"
    /\ FreeFor(c)
    /\ LET args == Args(c)
       IN IF args = <<>> \/ (Len(args) >= 2 /\ parse_unsigned(args[2]) = None)
          THEN Die(c, "panicked") /\ UNCHANGED <<txn, map>>
          ELSE LET key == args[1]
                   e == map[key]
               IN IF e = None THEN ReturnFrom(c, Null, txn[c]) /\ UNCHANGED map
                  ELSE IF e[1].value.kind # "List"
                  THEN Die(c, "panicked") /\ UNCHANGED <<txn, map>>
                  ELSE LET items == e[1].value.items
                           n == IF Len(args) >= 2
                                THEN (IF parse_unsigned(args[2])[1] < Len(items)
                                      THEN parse_unsigned(args[2])[1] ELSE Len(items))
                                ELSE (IF items = <<>> THEN 0 ELSE 1)
                       IN /\ map' = [map EXCEPT ![key] = Some([e[1] EXCEPT !.value.items =
                                                                 SubSeq(items, n + 1, Len(items))])]
                          /\ ReturnFrom(c,
                                IF Len(args) >= 2
                                THEN Array([i \in 1..n |-> BulkString(items[i])])
                                ELSE IF n = 1 THEN BulkString(items[1]) ELSE Null,
                                txn[c])
    /\ UNCHANGED <<role, held, codecVars, streamVars, subVars, waiting_on_list, oneshot, replicas, replication_offset, now,
                   listening, chanVars, bytes, locals, applied, fanned, reg_at, exec_n>>

\* usize::saturating_add_signed for a negative rhs
saturating_add_signed(len, i) == IF len + i < 0 THEN 0 ELSE len + i

\* lrange (list.rs 152-199).  `items.len() - 1` on an empty list overflows usize:
\* a build with overflow checks panics, one without wraps to usize::MAX, after
\* which start_index >= items.len() gives the empty array.
lrange(c) ==
    /\ pc[c] = "execute" /\ Cmd(c) = "LRange"
    /\ FreeFor(c)
    /\ LET args == Args(c)
       IN IF Len(args) < 3
          THEN Die(c, "panicked") /\ UNCHANGED txn
          ELSE IF parse_int(args[2]) = None \/ parse_int(args[3]) = None
          THEN Die(c, "failed") /\ UNCHANGED txn
          ELSE LET e == map[args[1]]
                   start == parse_int(args[2])[1]
                   end == parse_int(args[3])[1]
               IN IF e = None THEN ReturnFrom(c, Array(<<>>), txn[c])
                  ELSE IF e[1].value.kind # "List"
                  THEN Die(c, "panicked") /\ UNCHANGED txn
                  ELSE LET items == e[1].value.items
                           start_index == IF start < 0
                                          THEN saturating_add_signed(Len(items), start)
                                          ELSE start
                           end_index == IF end < 0
                                        THEN saturating_add_signed(Len(items), end)
                                        ELSE IF end >= Len(items) THEN Len(items) - 1
                                        ELSE end
                       IN IF end >= 0 /\ items = <<>>
                          THEN \/ Die(c, "panicked") /\ UNCHANGED txn
                               \/ ReturnFrom(c, Array(<<>>), txn[c])
                          ELSE IF start_index > end_index \/ start_index >= Len(items)
                          THEN ReturnFrom(c, Array(<<>>), txn[c])
                          ELSE ReturnFrom(c,
                                  Array([i \in 1..(end_index - start_index + 1) |->
                                           BulkString(items[start_index + i])]),
                                  txn[c])
    /\ UNCHANGED <<stateVars, chanVars, bytes, locals, applied, fanned, reg_at, exec_n>>

\* llen (list.rs 201-221)
llen(c) ==
    /\ pc[c] = "execute" /\ Cmd(c) = "LLen"
    /\ FreeFor(c)
    /\ IF Len(Args(c)) # 1
       THEN Die(c, "panicked") /\ UNCHANGED txn
       ELSE LET e == map[Args(c)[1]]
            IN IF e = None THEN ReturnFrom(c, Integer(0), txn[c])
               ELSE IF e[1].value.kind # "List"
               THEN Die(c, "panicked") /\ UNCHANGED txn
               ELSE ReturnFrom(c, Integer(Len(e[1].value.items)), txn[c])
    /\ UNCHANGED <<stateVars, chanVars, bytes, locals, applied, fanned, reg_at, exec_n>>

\* ----------------------------------------------------------------- streams
\* str::split_once('-'): the text before and after the first '-'
RECURSIVE find_dash(_, _)
find_dash(s, i) ==
    IF i > Len(s) THEN 0 ELSE IF SubSeq(s, i, i) = "-" THEN i ELSE find_dash(s, i + 1)

split_once(s) ==
    LET i == find_dash(s, 1)
    IN IF i = 0 THEN None ELSE Some(<<SubSeq(s, 1, i - 1), SubSeq(s, i + 1, Len(s))>>)

\* the order of (u64, u64) keys in the stream's BTreeMap
IdLess(a, b) == a[1] < b[1] \/ (a[1] = b[1] /\ a[2] < b[2])
IdLeq(a, b) == a = b \/ IdLess(a, b)

Stream(entries) == [kind |-> "Stream", entries |-> entries]
StreamEntry(id, kv_pairs) == [id |-> id, kv_pairs |-> kv_pairs]

\* BTreeMap::insert: the entry goes to its place in key order and replaces an
\* entry with the same key
RECURSIVE btree_insert(_, _)
btree_insert(entries, e) ==
    IF entries = <<>> THEN <<e>>
    ELSE IF Head(entries).id = e.id THEN <<e>> \o Tail(entries)
    ELSE IF IdLess(e.id, Head(entries).id) THEN <<e>> \o entries
    ELSE <<Head(entries)>> \o btree_insert(Tail(entries), e)

\* id_to_value (stream.rs 130-132)
id_to_value(id) == BulkString(ToString(id[1]) \o "-" \o ToString(id[2]))

\* xadd's sequence number for `ms-*` and `*` (stream.rs 61-83): one more than
\* the last entry at or below millis when that entry is at millis
next_seq(e, millis) ==
    IF e = None THEN (IF millis = 0 THEN 1 ELSE 0)
    ELSE LET below == SelectSeq(e[1].value.entries,
                                LAMBDA x : IdLess(x.id, <<millis + 1, 0>>))
         IN IF below = <<>> THEN (IF millis = 0 THEN 1 ELSE 0)
            ELSE IF Last(below).id[1] = millis THEN Last(below).id[2] + 1
            ELSE 0

XaddLocals(id) == [values |-> <<>>, og_len |-> 0, rx |-> 0, id |-> id]

\* xadd with the top-id check of xadd_store left out
xadd_store_Unchecked(c) ==
    /\ pc[c] = "xadd_store"
    /\ FreeFor(c)
    /\ LET key == Args(c)[1]
           e == map[key]
           entry == StreamEntry(locals[c].id, SubSeq(Args(c), 3, Len(Args(c))))
       IN IF e = None THEN Goto(c, "xadd_insert") /\ UNCHANGED <<map, applied>>
          ELSE /\ map' = [map EXCEPT ![key] = Some([e[1] EXCEPT !.value.entries =
                                                     btree_insert(@, entry)])]
               /\ applied' = Append(applied, FromIter(<<"XADD", key,
                                                        id_to_value(locals[c].id).s>>))
               /\ Goto(c, "xadd_notify")
    /\ UNCHANGED <<role, held, codecVars, streamVars, subVars, waiting_on_list, oneshot, replicas,
                   replication_offset, now, listening, chanVars, bytes, locals, fanned,
                   reg_at, exec_n>>

\* xadd (stream.rs 34-91): the id is worked out, for `ms-*` and `*` with a
\* lookup of the stream; the id 0-0 is rejected
xadd(c) ==
    /\ pc[c] = "execute" /\ Cmd(c) = "XAdd"
    /\ LET args == Args(c)
       IN IF Len(args) < 2 \/ Len(args) % 2 # 0
          THEN Die(c, "panicked") /\ UNCHANGED <<txn, locals>>
          ELSE LET key == args[1]
                   id_string == args[2]
                   parts == split_once(id_string)
                   millis == IF id_string = "*" THEN Some(now)
                             ELSE IF parts = None THEN None
                             ELSE parse_unsigned(parts[1][1])
                   explicit == parts # None /\ parts[1][2] # "*"
               IN IF millis = None \/ (explicit /\ parse_unsigned(parts[1][2]) = None)
                  THEN Die(c, "failed") /\ UNCHANGED <<txn, locals>>
                  ELSE IF ~explicit /\ map[key] # None /\ map[key][1].value.kind # "Stream"
                  THEN Die(c, "panicked") /\ UNCHANGED <<txn, locals>>
                  ELSE LET seq == IF explicit THEN parse_unsigned(parts[1][2])[1]
                                  ELSE next_seq(map[key], millis[1])
                           id == <<millis[1], seq>>
                       IN IF id = <<0, 0>>
                          THEN /\ ReturnFrom(c, SimpleError(
                                     "ERR The ID specified in XADD must be greater than 0-0"),
                                     txn[c])
                               /\ UNCHANGED locals
                          ELSE /\ Goto(c, "xadd_store")
                               /\ locals' = [locals EXCEPT ![c] = XaddLocals(id)]
    /\ UNCHANGED <<role, held, codecVars, streamVars, subVars, map, waiting_on_list, oneshot, replicas,
                   replication_offset, now, listening, chanVars, bytes, applied, fanned,
                   reg_at, exec_n>>

\* xadd (93-105): under the entry's guard an id at or below the stream's top
\* is rejected, any other is inserted
xadd_store(c) ==
    /\ pc[c] = "xadd_store"
    /\ FreeFor(c)
    /\ LET key == Args(c)[1]
           e == map[key]
           entry == StreamEntry(locals[c].id, SubSeq(Args(c), 3, Len(Args(c))))
       IN IF e = None
          THEN Goto(c, "xadd_insert") /\ UNCHANGED <<map, applied, locals>>
          ELSE IF e[1].value.kind # "Stream"
          THEN Die(c, "panicked") /\ UNCHANGED <<txn, map, applied, locals>>
          ELSE IF e[1].value.entries # <<>> /\ IdLeq(locals[c].id, Last(e[1].value.entries).id)
          THEN /\ ReturnFrom(c, SimpleError(
                     "ERR The ID specified in XADD is equal or smaller than the target stream top item"),
                     txn[c])
               /\ locals' = [locals EXCEPT ![c] = NoLocals]
               /\ UNCHANGED <<map, applied>>
          ELSE /\ map' = [map EXCEPT ![key] = Some([e[1] EXCEPT !.value.entries =
                                                     btree_insert(@, entry)])]
               /\ applied' = Append(applied, FromIter(<<"XADD", key,
                                                        id_to_value(locals[c].id).s>>))
               /\ Goto(c, "xadd_notify")
               /\ UNCHANGED locals
    /\ UNCHANGED <<role, held, codecVars, streamVars, subVars, waiting_on_list, oneshot, replicas,
                   replication_offset, now, listening, chanVars, bytes, fanned, reg_at,
                   exec_n>>

\* xadd, no entry found (106-114): a stream holding the one entry is inserted
xadd_insert(c) ==
    /\ pc[c] = "xadd_insert"
    /\ FreeFor(c)
    /\ map' = [map EXCEPT ![Args(c)[1]] =
                 Some(MapValue(Stream(<<StreamEntry(locals[c].id,
                                                    SubSeq(Args(c), 3, Len(Args(c))))>>),
                               None))]
    /\ applied' = Append(applied, FromIter(<<"XADD", Args(c)[1],
                                             id_to_value(locals[c].id).s>>))
    /\ Goto(c, "xadd_notify")
    /\ UNCHANGED <<role, held, codecVars, streamVars, subVars, waiting_on_list, oneshot, replicas,
                   replication_offset, now, listening, chanVars, bytes, locals, fanned,
                   reg_at, exec_n>>

\* StreamEvent (main.rs 89-92)
StreamEvent(id, kv_pairs) == [id |-> id, kv_pairs |-> kv_pairs]

\* xadd's notification with the event sent to the first live waiter only
xadd_notify_FirstOnly(c) ==
    /\ pc[c] = "xadd_notify"
    /\ LET key == Args(c)[1]
           ev == StreamEvent(locals[c].id, SubSeq(Args(c), 3, Len(Args(c))))
           live(i) == stream_chan[i].open
           first == SelectSeq(waiting_on_stream[key], live)
       IN /\ stream_chan' = [i \in DOMAIN stream_chan |->
                               IF first # <<>> /\ first[1] = i
                               THEN [stream_chan[i] EXCEPT !.events = Append(@, ev)]
                               ELSE stream_chan[i]]
          /\ waiting_on_stream' = [waiting_on_stream EXCEPT ![key] = SelectSeq(@, live)]
          /\ UNCHANGED jset
    /\ locals' = [locals EXCEPT ![c] = NoLocals]
    /\ ReturnFrom(c, id_to_value(locals[c].id), txn[c])
    /\ UNCHANGED <<role, held, codecVars, subVars, map, waiting_on_list, oneshot, replicas,
                   replication_offset, now, listening, chanVars, bytes, applied, fanned,
                   reg_at, exec_n>>

\* xadd (117-125): the event is sent to the key's waiters; a sender whose
\* receiver is gone is removed
xadd_notify(c) ==
    /\ pc[c] = "xadd_notify"
    /\ LET key == Args(c)[1]
           ev == StreamEvent(locals[c].id, SubSeq(Args(c), 3, Len(Args(c))))
           live(i) == stream_chan[i].open
       IN /\ stream_chan' = [i \in DOMAIN stream_chan |->
                               IF live(i) /\ \E j \in DOMAIN waiting_on_stream[key] :
                                                waiting_on_stream[key][j] = i
                               THEN [stream_chan[i] EXCEPT !.events = Append(@, ev)]
                               ELSE stream_chan[i]]
          /\ waiting_on_stream' = [waiting_on_stream EXCEPT ![key] = SelectSeq(@, live)]
          /\ UNCHANGED jset
    /\ locals' = [locals EXCEPT ![c] = NoLocals]
    /\ ReturnFrom(c, id_to_value(locals[c].id), txn[c])
    /\ UNCHANGED <<role, held, codecVars, subVars, map, waiting_on_list, oneshot, replicas,
                   replication_offset, now, listening, chanVars, bytes, applied, fanned,
                   reg_at, exec_n>>

\* xread_block (stream.rs 212-226): the arguments are checked and the streams
\* are split into keys and start ids
xread_block(c) ==
    /\ pc[c] = "execute" /\ Cmd(c) = "XRead"
    /\ Args(c) # <<>> /\ Args(c)[1] = "block"
    /\ LET args == Tail(Args(c))
       IN IF Len(args) < 2 \/ args[2] # "streams"
          THEN Die(c, "panicked") /\ UNCHANGED <<txn, jset, locals>>
          ELSE IF parse_unsigned(args[1]) = None
          THEN Die(c, "failed") /\ UNCHANGED <<txn, jset, locals>>
          ELSE IF Len(args) % 2 # 0
          THEN Die(c, "panicked") /\ UNCHANGED <<txn, jset, locals>>
          ELSE /\ Goto(c, IF Len(args) = 2 THEN "xread_wait" ELSE "xread_spawn")
               /\ jset' = [jset EXCEPT ![c] = <<>>]
               /\ locals' = [locals EXCEPT ![c] = NoLocals]
    /\ UNCHANGED <<role, held, codecVars, subVars, stream_chan, waiting_on_stream, map,
                   waiting_on_list, oneshot, replicas, replication_offset, now, listening,
                   chanVars, bytes, applied, fanned, reg_at, exec_n>>

\* the channels of the tasks of c's JoinSet, their receivers dropped
abort_all(chans, tasks) ==
    [i \in DOMAIN chans |->
        IF \E t \in DOMAIN tasks : tasks[t].rx = i
        THEN [events |-> <<>>, open |-> FALSE] ELSE chans[i]]

\* xread_block's loop (228-280), one key per step: a channel is made and its
\* sender is pushed onto the key's waiters, the start id is parsed, and the
\* task that receives from the channel is spawned; a start id that does not
\* parse returns the error, which drops the JoinSet and aborts its tasks
xread_spawn(c) ==
    /\ pc[c] = "xread_spawn"
    /\ LET args == Tail(Args(c))
           n == (Len(args) - 2) \div 2
           i == Len(jset[c]) + 1
           key == args[2 + i]
           start == args[2 + n + i]
           bad == start # "$" /\
                  (\/ split_once(start) = None
                   \/ parse_unsigned(split_once(start)[1][1]) = None
                   \/ parse_unsigned(split_once(start)[1][2]) = None)
           id == IF start = "$" THEN None
                 ELSE Some(<<parse_unsigned(split_once(start)[1][1])[1],
                             parse_unsigned(split_once(start)[1][2])[1]>>)
           rx == Len(stream_chan) + 1
       IN /\ waiting_on_stream' = [waiting_on_stream EXCEPT ![key] = Append(@, rx)]
          /\ IF bad
             THEN /\ stream_chan' = Append(abort_all(stream_chan, jset[c]),
                                           [events |-> <<>>, open |-> FALSE])
                  /\ jset' = [jset EXCEPT ![c] = <<>>]
                  /\ Die(c, "failed") /\ UNCHANGED txn
             ELSE /\ stream_chan' = Append(stream_chan, [events |-> <<>>, open |-> TRUE])
                  /\ jset' = [jset EXCEPT ![c] =
                                Append(@, [rx |-> rx, key |-> key, start |-> id,
                                           done |-> FALSE])]
                  /\ Goto(c, IF i = n THEN "xread_wait" ELSE "xread_spawn")
    /\ UNCHANGED <<role, held, codecVars, subVars, map, waiting_on_list, oneshot, replicas,
                   replication_offset, now, listening, chanVars, bytes, locals, applied,
                   fanned, reg_at, exec_n>>

\* the reply xread_block builds from the (key, events) pairs it kept (293-299)
xread_reply(kept) ==
    IF kept = <<>> THEN Null
    ELSE Array([i \in DOMAIN kept |->
                  Array(<<BulkString(kept[i].key), Array(kept[i].items)>>)])

\* one of xread_block's tasks (248-272) receives an event: one at or below the
\* start id is skipped; any other is added to the key's pair of the shared
\* result, and a task that made the pair returns when the timeout is zero
xread_recv(c) ==
    /\ pc[c] \in {"xread_spawn", "xread_wait"}
    /\ \E j \in DOMAIN jset[c] :
          LET task == jset[c][j]
              ev == Head(stream_chan[task.rx].events)
              kept == locals[c].values
              new == Array(<<id_to_value(ev.id), FromIter(ev.kv_pairs)>>)
              skip == task.start # None /\ IdLeq(ev.id, task.start[1])
              idx == {i \in DOMAIN kept : kept[i].key = task.key}
              zero == parse_unsigned(Tail(Args(c))[1])[1] = 0
          IN /\ ~task.done
             /\ stream_chan[task.rx].events # <<>>
             /\ locals' = [locals EXCEPT ![c].values =
                             IF skip THEN kept
                             ELSE IF idx # {}
                             THEN [i \in DOMAIN kept |->
                                     IF i \in idx
                                     THEN [kept[i] EXCEPT !.items = Append(@, new)]
                                     ELSE kept[i]]
                             ELSE Append(kept, [key |-> task.key, items |-> <<new>>])]
             /\ IF ~skip /\ idx = {} /\ zero
                THEN /\ jset' = [jset EXCEPT ![c][j].done = TRUE]
                     /\ stream_chan' = [stream_chan EXCEPT ![task.rx] =
                                          [events |-> <<>>, open |-> FALSE]]
                ELSE /\ stream_chan' = [stream_chan EXCEPT ![task.rx].events = Tail(@)]
                     /\ UNCHANGED jset
    /\ UNCHANGED <<role, held, codecVars, subVars, waiting_on_stream, map, waiting_on_list,
                   oneshot, replicas, replication_offset, now, listening, chanVars, txn, pc,
                   bytes, command, txn_inner, exec_ret, ret, histVars>>

\* a task of xread_block with a timeout > 0 (273-279): the timeout elapses and
\* the task ends, which drops its receiver
xread_elapsed(c) ==
    /\ pc[c] \in {"xread_spawn", "xread_wait"}
    /\ parse_unsigned(Tail(Args(c))[1])[1] > 0
    /\ \E j \in DOMAIN jset[c] :
          /\ ~jset[c][j].done
          /\ jset' = [jset EXCEPT ![c][j].done = TRUE]
          /\ stream_chan' = [stream_chan EXCEPT ![jset[c][j].rx] =
                               [events |-> <<>>, open |-> FALSE]]
    /\ UNCHANGED <<role, held, codecVars, subVars, waiting_on_stream, map, waiting_on_list,
                   oneshot, replicas, replication_offset, now, listening, chanVars, connVars,
                   histVars>>

\* xread_block's join loop and return (282-299).  With a timeout of zero the
\* loop ends at the first task that finished (or at once when there is none),
\* else when every task finished.  Arc::into_inner(ret) then expects that no
\* task holds the shared result any more: a task that is still waiting does,
\* and the handler panics.  The JoinSet is dropped with the handler's frame.
xread_join(c) ==
    /\ pc[c] = "xread_wait"
    /\ LET zero == parse_unsigned(Tail(Args(c))[1])[1] = 0
           all == \A j \in DOMAIN jset[c] : jset[c][j].done
           some == \E j \in DOMAIN jset[c] : jset[c][j].done
       IN /\ IF zero THEN (some \/ jset[c] = <<>>) ELSE all
          /\ IF all
             THEN ReturnFrom(c, xread_reply(locals[c].values), txn[c])
             ELSE Die(c, "panicked") /\ UNCHANGED txn
    /\ stream_chan' = abort_all(stream_chan, jset[c])
    /\ jset' = [jset EXCEPT ![c] = <<>>]
    /\ locals' = [locals EXCEPT ![c] = NoLocals]
    /\ UNCHANGED <<role, held, codecVars, subVars, waiting_on_stream, map, waiting_on_list,
                   oneshot, replicas, replication_offset, now, listening, chanVars, bytes,
                   applied, fanned, reg_at, exec_n>>

\* SystemTime::now() moves on
Tick ==
    /\ now' = now + 1
    /\ UNCHANGED <<role, held, codecVars, streamVars, subVars, map, waiting_on_list, oneshot, replicas,
                   replication_offset, listening, chanVars, connVars, histVars>>

\* ------------------------------------------------------------- sorted sets
\* A handler that no arm of Command::execute calls is applied to its arguments
\* on an idle connection.
Call(c, argv) ==
    /\ pc[c] = "read" /\ txn[c] = None
    /\ command' = [command EXCEPT ![c] = argv]
    /\ pc' = [pc EXCEPT ![c] = "call"]
    /\ UNCHANGED <<stateVars, chanVars, txn, bytes, txn_inner, exec_ret, ret, locals, histVars>>

SortedSet(entries) == [kind |-> "SortedSet", entries |-> entries]
SetEntry(score, value) == [score |-> score, value |-> value]

\* str::cmp on the members the runs use
MemberOrder == <<"a", "b", "c">>
str_lt(a, b) ==
    \E i, j \in DOMAIN MemberOrder : i < j /\ MemberOrder[i] = a /\ MemberOrder[j] = b

\* impl Ord for SetEntry (main.rs 53-62): equal when the members are equal,
\* else by score and, for equal scores, by member
SetEntry_cmp(a, b) ==
    IF a.value = b.value THEN "Equal"
    ELSE IF a.score < b.score THEN "Less"
    ELSE IF a.score > b.score THEN "Greater"
    ELSE IF str_lt(a.value, b.value) THEN "Less" ELSE "Greater"

\* BTreeSet::insert: the search stops at the first element that is not Less
\* than e; an Equal element is kept as it is
RECURSIVE btreeset_insert(_, _)
btreeset_insert(entries, e) ==
    IF entries = <<>> THEN <<e>>
    ELSE CASE SetEntry_cmp(e, Head(entries)) = "Equal" -> entries
           [] SetEntry_cmp(e, Head(entries)) = "Less" -> <<e>> \o entries
           [] OTHER -> <<Head(entries)>> \o btreeset_insert(Tail(entries), e)

\* zadd with the retain that removes the member's old entry left out
zadd_NoRetain(c) ==
    /\ pc[c] = "call" /\ command[c][1] = "ZADD"
    /\ FreeFor(c)
    /\ Len(Args(c)) = 3 /\ parse_f64(Args(c)[2]) # None
    /\ LET key == Args(c)[1]
           e == IF map[key] = None THEN MapValue(SortedSet(<<>>), None) ELSE map[key][1]
       IN /\ e.value.kind = "SortedSet"
          /\ map' = [map EXCEPT ![key] = Some([e EXCEPT !.value.entries =
                         btreeset_insert(@, SetEntry(parse_f64(Args(c)[2])[1], Args(c)[3]))])]
          /\ ReturnFrom(c, Integer(1), txn[c])
    /\ UNCHANGED <<role, held, codecVars, streamVars, subVars, waiting_on_list, oneshot, replicas,
                   replication_offset, now, listening, chanVars, bytes, locals, applied, fanned,
                   reg_at, exec_n>>

\* zadd (sorted_set.rs 7-46), all under the guard of the key's entry: the set
\* is made if the key is absent, the member's old entry is removed, the score
\* is parsed and the new entry is inserted
zadd(c) ==
    /\ pc[c] = "call" /\ command[c][1] = "ZADD"
    /\ FreeFor(c)
    /\ LET args == Args(c)
       IN IF Len(args) # 3
          THEN Die(c, "panicked") /\ UNCHANGED <<txn, map>>
          ELSE LET key == args[1]
                   value == args[3]
                   e == IF map[key] = None THEN MapValue(SortedSet(<<>>), None)
                        ELSE map[key][1]
               IN IF e.value.kind # "SortedSet"
                  THEN Die(c, "panicked") /\ UNCHANGED <<txn, map>>
                  ELSE LET kept == SelectSeq(e.value.entries, LAMBDA x : x.value # value)
                           removed == kept # e.value.entries
                       IN IF parse_f64(args[2]) = None
                          THEN /\ map' = [map EXCEPT ![key] =
                                            Some([e EXCEPT !.value.entries = kept])]
                               /\ Die(c, "failed") /\ UNCHANGED txn
                          ELSE /\ map' = [map EXCEPT ![key] = Some([e EXCEPT !.value.entries =
                                            btreeset_insert(kept,
                                                SetEntry(parse_f64(args[2])[1], value))])]
                               /\ ReturnFrom(c, Integer(IF removed THEN 0 ELSE 1), txn[c])
    /\ UNCHANGED <<role, held, codecVars, streamVars, subVars, waiting_on_list, oneshot, replicas,
                   replication_offset, now, listening, chanVars, bytes, locals, applied, fanned,
                   reg_at, exec_n>>

\* zrange (sorted_set.rs 77-119): the indices are parsed, negative ones are
\* counted from the tail with saturating_add_signed, and `max - min + 1` members
\* are taken after skipping min.  With min > max the subtraction overflows
\* usize: a build with overflow checks panics; one without wraps, to 0 when
\* min = max + 1 and to a count beyond every set otherwise.
zrange(c) ==
    /\ pc[c] = "call" /\ command[c][1] = "ZRANGE"
    /\ FreeFor(c)
    /\ LET args == Args(c)
       IN IF Len(args) # 3
          THEN Die(c, "panicked") /\ UNCHANGED txn
          ELSE IF parse_int(args[2]) = None \/ parse_int(args[3]) = None
          THEN Die(c, "failed") /\ UNCHANGED txn
          ELSE LET e == map[args[1]]
               IN IF e = None THEN ReturnFrom(c, Array(<<>>), txn[c])
                  ELSE IF e[1].value.kind # "SortedSet"
                  THEN Die(c, "panicked") /\ UNCHANGED txn
                  ELSE LET members == e[1].value.entries
                           lo == parse_int(args[2])[1]
                           hi == parse_int(args[3])[1]
                           min == IF lo < 0 THEN saturating_add_signed(Len(members), lo) ELSE lo
                           max == IF hi < 0 THEN saturating_add_signed(Len(members), hi) ELSE hi
                           skipped == SubSeq(members, min + 1, Len(members))
                           take(n) == SubSeq(skipped, 1, IF n < Len(skipped) THEN n
                                                         ELSE Len(skipped))
                           reply(n) == Array([i \in DOMAIN take(n) |->
                                                 BulkString(take(n)[i].value)])
                       IN IF min > max
                          THEN \/ Die(c, "panicked") /\ UNCHANGED txn
                               \/ ReturnFrom(c, reply(IF min = max + 1 THEN 0 ELSE Len(members)),
                                             txn[c])
                          ELSE ReturnFrom(c, reply(max - min + 1), txn[c])
    /\ UNCHANGED <<stateVars, chanVars, bytes, locals, applied, fanned, reg_at, exec_n>>

\* Command::execute, Multi / Exec / Discard (mod.rs 254-263)
Multi(c) ==
    /\ pc[c] = "execute" /\ Cmd(c) = "Multi"
    /\ ReturnFrom(c, SimpleString("OK"), Some(<<>>))
    /\ UNCHANGED <<stateVars, chanVars, bytes, locals, applied, fanned, reg_at, exec_n>>

Exec(c) ==
    /\ pc[c] = "execute" /\ Cmd(c) = "Exec"
    /\ ReturnFrom(c, SimpleError("ERR EXEC without MULTI"), txn[c])
    /\ UNCHANGED <<stateVars, chanVars, bytes, locals, applied, fanned, reg_at, exec_n>>

Discard(c) ==
    /\ pc[c] = "execute" /\ Cmd(c) = "Discard"
    /\ ReturnFrom(c, SimpleError("ERR DISCARD without MULTI"), txn[c])
    /\ UNCHANGED <<stateVars, chanVars, bytes, locals, applied, fanned, reg_at, exec_n>>

\* replconf with the bytes of the frame in hand counted into the ACK
replconf_CountsItself(c) ==
    /\ pc[c] = "execute" /\ Cmd(c) = "ReplConf"
    /\ LET args == Args(c)
           field == to_lowercase(args[1])
       IN IF args = <<>> THEN Die(c, "failed") /\ UNCHANGED txn
          ELSE IF field \in {"listening-port", "capa"}
          THEN ReturnFrom(c, SimpleString("OK"), txn[c])
          ELSE IF field = "getack"
          THEN IF Len(args) < 2 THEN Die(c, "panicked") /\ UNCHANGED txn
               ELSE IF args[2] # "*" THEN Die(c, "failed") /\ UNCHANGED txn
               ELSE ReturnFrom(c,
                       FromIter(<<"REPLCONF", "ACK",
                                  ToString(replication_offset + bytes[c])>>),
                       txn[c])
          ELSE Die(c, "failed") /\ UNCHANGED txn
    /\ UNCHANGED <<stateVars, chanVars, bytes, locals, applied, fanned, reg_at, exec_n>>

\* replconf (replication.rs 35-59)
replconf(c) ==
    /\ pc[c] = "execute" /\ Cmd(c) = "ReplConf"
    /\ LET args == Args(c)
           field == to_lowercase(args[1])
       IN IF args = <<>> THEN Die(c, "failed") /\ UNCHANGED txn
          ELSE IF field \in {"listening-port", "capa"}
          THEN ReturnFrom(c, SimpleString("OK"), txn[c])
          ELSE IF field = "getack"
          THEN IF Len(args) < 2 THEN Die(c, "panicked") /\ UNCHANGED txn
               ELSE IF args[2] # "*" THEN Die(c, "failed") /\ UNCHANGED txn
               ELSE ReturnFrom(c,
                       FromIter(<<"REPLCONF", "ACK", ToString(replication_offset)>>),
                       txn[c])
          ELSE Die(c, "failed") /\ UNCHANGED txn
    /\ UNCHANGED <<stateVars, chanVars, bytes, locals, applied, fanned, reg_at, exec_n>>

\* psync (replication.rs 61-86), up to the push under the registry's lock
psync(c) ==
    /\ pc[c] = "execute" /\ Cmd(c) = "PSync"
    /\ IF Len(Args(c)) # 2 \/ Args(c) # <<"?", "-1">>
       THEN /\ Die(c, "failed")
            /\ UNCHANGED <<replicas, reg_at>>
       ELSE /\ replicas' = Append(replicas, c)
            /\ reg_at' = [reg_at EXCEPT ![c] = Len(fanned)]
            /\ pc' = [pc EXCEPT ![c] = "psync_send"]
            /\ UNCHANGED <<ret, command, txn_inner, exec_ret, answers>>
    /\ UNCHANGED <<role, held, codecVars, streamVars, subVars, map, waiting_on_list, oneshot, replication_offset, now, listening,
                   chanVars, txn, bytes, locals, applied, fanned, exec_n>>

\* psync: FULLRESYNC is sent to the caller's outbox, the snapshot is returned
psync_send(c) ==
    /\ pc[c] = "psync_send"
    /\ LET fullresync == SimpleString("FULLRESYNC " \o replication_id \o " "
                                        \o ToString(replication_offset))
       IN IF c \in rx_dropped
          THEN /\ Die(c, "failed")
               /\ UNCHANGED <<outbox, txn>>
          ELSE /\ outbox' = [outbox EXCEPT ![c] = Append(@, fullresync)]
               /\ ReturnFromWith(c, Rdb, txn[c], <<fullresync>>)
    /\ UNCHANGED <<stateVars, rx_dropped, written, received, bytes, locals, applied, fanned,
                   reg_at, exec_n>>

\* ----------------------------------------------------------------- pub/sub
\* subscribe (pubsub.rs 7-30), called in either mode: the channel joins the
\* connection's set and one more clone of its sender joins the channel's list.
subscribe(c) ==
    /\ pc[c] \in {"execute", "execute_subscribed"} /\ Cmd(c) = "Subscribe"
    /\ IF Len(Args(c)) # 1
       THEN /\ Die(c, "failed")
            /\ UNCHANGED <<txn, subVars>>
       ELSE LET channel == Args(c)[1]
            IN /\ mode' = [mode EXCEPT ![c] = "Subscribed"]
               /\ channels' = [channels EXCEPT ![c] = @ \cup {channel}]
               /\ channel_listeners' = [channel_listeners EXCEPT ![channel] = Append(@, c)]
               /\ ReturnFrom(c, Array(<<BulkString("subscribe"), BulkString(channel),
                                         Integer(Cardinality(channels[c] \cup {channel}))>>),
                             txn[c])
    /\ UNCHANGED <<role, held, codecVars, streamVars, map, waiting_on_list, oneshot, replicas,
                   replication_offset, now, listening, chanVars, bytes, locals, applied, fanned,
                   reg_at, exec_n>>

\* Command::execute, Ping in Subscribed mode (mod.rs 287-289)
Ping_Subscribed(c) ==
    /\ pc[c] = "execute_subscribed" /\ Cmd(c) = "Ping"
    /\ ReturnFrom(c, FromIter(<<"pong", "">>), txn[c])
    /\ UNCHANGED <<stateVars, chanVars, bytes, locals, applied, fanned, reg_at, exec_n>>

\* the reply of Command::execute's last arm (mod.rs 291)
CantExecute(cmd) ==
    SimpleError("ERR Can't execute '" \o to_str(cmd)
                \o "': only (P|S)SUBSCRIBE / (P|S)UNSUBSCRIBE / PING / QUIT / RESET are allowed in this context")

\* Command::execute, every other command in Subscribed mode (mod.rs 291)
execute_subscribed(c) ==
    /\ pc[c] = "execute_subscribed" /\ Cmd(c) \notin {"Subscribe", "Ping"}
    /\ ReturnFrom(c, CantExecute(Cmd(c)), txn[c])
    /\ UNCHANGED <<stateVars, chanVars, bytes, locals, applied, fanned, reg_at, exec_n>>

\* publish (pubsub.rs 32-52): under the guard of the channel's list, the message
\* is sent to every listed sender, the senders whose receiver is gone leave the
\* list, and the reply is the length of what stays.
publish(c) ==
    /\ pc[c] = "call" /\ command[c][1] = "PUBLISH"
    /\ IF Len(command[c]) # 3
       THEN /\ Die(c, "failed")
            /\ UNCHANGED <<txn, outbox, channel_listeners>>
       ELSE LET channel == command[c][2]
                f == retain_send(channel_listeners[channel], outbox, rx_dropped,
                                 FromIter(<<"message", channel, command[c][3]>>))
            IN /\ outbox' = f.outbox
               /\ channel_listeners' = [channel_listeners EXCEPT ![channel] = f.replicas]
               /\ ReturnFrom(c, Integer(Len(f.replicas)), txn[c])
    /\ UNCHANGED <<role, held, codecVars, streamVars, mode, channels, map, waiting_on_list, oneshot, replicas,
                   replication_offset, now, listening, rx_dropped, written, received, bytes,
                   locals, applied, fanned, reg_at, exec_n>>

\* Vec::swap_remove: the last element takes the place of the one removed
swap_remove(s, idx) == [i \in 1..(Len(s) - 1) |-> IF i = idx THEN s[Len(s)] ELSE s[i]]

\* the index of the first sender in s that is (same) or is not connection c's
position(s, c, same) ==
    LET hits == {i \in DOMAIN s : (s[i] = c) = same}
    IN IF hits = {} THEN None ELSE Some(CHOOSE i \in hits : \A j \in hits : i <= j)

\* unsubscribe without the reset of the mode
unsubscribe_KeepsMode(c) ==
    /\ pc[c] = "call" /\ command[c][1] = "UNSUBSCRIBE"
    /\ LET channel == command[c][2]
           idx == position(channel_listeners[channel], c, TRUE)
       IN /\ channels' = [channels EXCEPT ![c] = @ \ {channel}]
          /\ channel_listeners' =
                IF idx = None THEN channel_listeners
                ELSE [channel_listeners EXCEPT ![channel] = swap_remove(@, idx[1])]
          /\ mode' = mode
    /\ pc' = [pc EXCEPT ![c] = "read"]
    /\ UNCHANGED <<role, held, codecVars, streamVars, map, waiting_on_list, oneshot, replicas,
                   replication_offset, now, listening, chanVars, txn, bytes, command, txn_inner,
                   exec_ret, ret, locals, histVars>>

\* ConnectionState::unsubscribe (main.rs 272-290): the channel leaves the
\* connection's set, the first sender of this connection leaves the channel's
\* list, and the mode is Normal again once the set is empty.
unsubscribe(c) ==
    /\ pc[c] = "call" /\ command[c][1] = "UNSUBSCRIBE"
    /\ LET channel == command[c][2]
           idx == position(channel_listeners[channel], c, TRUE)
       IN /\ channels' = [channels EXCEPT ![c] = @ \ {channel}]
          /\ channel_listeners' =
                IF idx = None THEN channel_listeners
                ELSE [channel_listeners EXCEPT ![channel] = swap_remove(@, idx[1])]
          /\ mode' = IF channels[c] \ {channel} = {} THEN [mode EXCEPT ![c] = "Normal"]
                     ELSE mode
    /\ pc' = [pc EXCEPT ![c] = "read"]
    /\ UNCHANGED <<role, held, codecVars, streamVars, map, waiting_on_list, oneshot, replicas,
                   replication_offset, now, listening, chanVars, txn, bytes, command, txn_inner,
                   exec_ret, ret, locals, histVars>>

\* ConnectionState::unsubscribe_all (main.rs 292-305): in every channel of the
\* connection's set, the first sender that is NOT this connection's leaves the
\* channel's list.
unsubscribe_all(c, listeners) ==
    [channel \in Channels |->
        LET idx == position(listeners[channel], c, FALSE)
        IN IF channel \in channels[c] /\ idx # None
           THEN swap_remove(listeners[channel], idx[1])
           ELSE listeners[channel]]

\* -------------------------------------------------- the end of a connection
\* read_commands (340-344): the peer closed the socket and the reader task
\* returns Ok; the connection's state, its sender included, stays in the task's
\* result.
ReadEof(c) ==
    /\ pc[c] = "read"
    /\ pc' = [pc EXCEPT ![c] = "eof"]
    /\ UNCHANGED <<stateVars, chanVars, txn, bytes, command, txn_inner, exec_ret, ret, locals,
                   histVars>>

\* the senders of connection c's outbox that are alive: the connection's own,
\* until its reader task failed or panicked, and the clones in the registries
Senders(c) ==
    (IF pc[c] \in {"failed", "panicked"} THEN 0 ELSE 1)
    + Len(SelectSeq(replicas, LAMBDA r : r = c))
    + Cardinality(UNION {{<<channel, i>> : i \in {j \in DOMAIN channel_listeners[channel] :
                                                    channel_listeners[channel][j] = c}}
                         : channel \in Channels})

\* handle_connection from the end of the writer loop (423-450): rx.recv()
\* yields None once the outbox is empty and every sender is gone; the reader's
\* result is awaited, an Err or a panic returns through `??`, and only an Ok
\* result reaches unsubscribe_all.
handle_connection_end(c) ==
    /\ c \notin rx_dropped
    /\ outbox[c] = <<>> /\ Senders(c) = 0
    /\ rx_dropped' = rx_dropped \cup {c}
    /\ channel_listeners' = IF pc[c] = "eof" THEN unsubscribe_all(c, channel_listeners)
                            ELSE channel_listeners
    /\ UNCHANGED <<role, held, codecVars, streamVars, mode, channels, map, waiting_on_list, oneshot, replicas,
                   replication_offset, now, listening, outbox, written, received, connVars,
                   histVars>>

\* ------------------------------------------------------------ do_handshake
\* State::listening_port, the default of --port
listening_port == 6379

starts_with(s, prefix) == Len(s) >= Len(prefix) /\ SubSeq(s, 1, Len(prefix)) = prefix

\* One exchange of do_handshake (main.rs 174-212): the reply is decoded into
\* the local `pong` / `ok` (its byte count is discarded), and `ensure!` either
\* ends the process or lets the next request be written to the socket.
do_handshake_step(at, got, ok, send, next) ==
    /\ pc[MasterConn] = at
    /\ locals' = [locals EXCEPT ![MasterConn] = [NoLocals EXCEPT !.values = got]]
    /\ IF ok
       THEN /\ written' = [written EXCEPT ![MasterConn] = Append(@, send)]
            /\ pc' = [pc EXCEPT ![MasterConn] = next]
       ELSE /\ pc' = [pc EXCEPT ![MasterConn] = "failed"]
            /\ UNCHANGED written
    /\ UNCHANGED <<stateVars, outbox, rx_dropped, received, txn, bytes, command, txn_inner,
                   exec_ret, ret, histVars>>

\* TcpStream::connect and the PING (164-172)
do_handshake_connect(connected) ==
    do_handshake_step("hs_connect", <<>>, connected, FromIter(<<"PING">>), "hs_pong")

\* do_handshake_pong without the `ensure!` on the reply
do_handshake_pong_AnyReply(reply) ==
    do_handshake_step("hs_pong", <<parse(reply).value>>, TRUE,
                      FromIter(<<"REPLCONF", "listening-port", ToString(listening_port)>>),
                      "hs_ok1")

\* the reply to PING (174-188)
do_handshake_pong(reply) ==
    do_handshake_step("hs_pong", <<parse(reply).value>>, parse(reply).value = "PONG",
                      FromIter(<<"REPLCONF", "listening-port", ToString(listening_port)>>),
                      "hs_ok1")

\* the reply to the first REPLCONF (190-200)
do_handshake_ok1(reply) ==
    do_handshake_step("hs_ok1", <<parse(reply).value>>, parse(reply).value = "OK",
                      FromIter(<<"REPLCONF", "capa", "psync2">>), "hs_ok2")

\* the reply to the second REPLCONF (202-212)
do_handshake_ok2(reply) ==
    do_handshake_step("hs_ok2", <<parse(reply).value>>, parse(reply).value = "OK",
                      FromIter(<<"PSYNC", "?", "-1">>), "hs_fullresync")

\* the reply to PSYNC (214-220)
do_handshake_fullresync(reply) ==
    /\ pc[MasterConn] = "hs_fullresync"
    /\ locals' = [locals EXCEPT ![MasterConn] =
                    [NoLocals EXCEPT !.values = <<parse(reply).value>>]]
    /\ pc' = [pc EXCEPT ![MasterConn] =
                IF starts_with(parse(reply).value, "FULLRESYNC") THEN "hs_rdb" ELSE "failed"]
    /\ UNCHANGED <<stateVars, chanVars, txn, bytes, command, txn_inner, exec_ret, ret,
                   histVars>>

\* get_rdb (222-224, resp.rs 86-112), then the connection's tasks are spawned
\* (226-228), do_handshake returns and main binds the listener (533-534)
do_handshake_rdb(reply) ==
    /\ pc[MasterConn] = "hs_rdb"
    /\ IF reply.t = "Rdb"
       THEN /\ pc' = [pc EXCEPT ![MasterConn] = "read"]
            /\ locals' = [locals EXCEPT ![MasterConn] = NoLocals]
            /\ listening' = TRUE
       ELSE /\ pc' = [pc EXCEPT ![MasterConn] = "failed"]
            /\ UNCHANGED <<locals, listening>>
    /\ UNCHANGED <<role, held, codecVars, streamVars, subVars, map, waiting_on_list, oneshot, replicas, replication_offset, now,
                   chanVars, txn, bytes, command, txn_inner, exec_ret, ret, histVars>>

\* --------------------------------------------------------------- rdb::read
\* AsyncReadExt::read_u32_le / read_u64_le: the number a little-endian byte
\* string encodes
RECURSIVE from_le_bytes(_)
from_le_bytes(b) == IF b = <<>> THEN 0 ELSE b[1] + 256 * from_le_bytes(Tail(b))

\* Duration::from_secs, in the milliseconds that `now` counts
from_secs(n) == n * 1000

\* one pair of the database subsection: the flag byte, the bytes of the
\* timestamp that follows 0xfd (four) or 0xfc (eight), the key and the value
DbEntry(flag, timestamp, key, value) ==
    [flag |-> flag, timestamp |-> timestamp, key |-> key, value |-> value]

\* rdb::read, the arm of the pair's flag (155-196): `expire`, with
\* SystemTime::UNIX_EPOCH the instant 0; both arms use Duration::from_secs
expire(entry) ==
    CASE entry.flag = 0 -> None
      [] entry.flag = 253 -> Some(0 + from_secs(from_le_bytes(entry.timestamp)))
      [] entry.flag = 252 -> Some(0 + from_secs(from_le_bytes(entry.timestamp)))

\* rdb::read, the insert (206-212): the value is stored as a String and
\* expires_at is expire.map(|_| Instant::now())
RECURSIVE insert_pairs(_, _, _)
insert_pairs(m, entries, at) ==
    IF entries = <<>> THEN m
    ELSE LET entry == entries[1]
             expires_at == IF expire(entry) = None THEN None ELSE Some(at)
         IN insert_pairs([m EXCEPT ![entry.key] =
                             Some(MapValue([kind |-> "String", s |-> entry.value],
                                           expires_at))],
                         Tail(entries), at)

\* main (508-534): the snapshot file is read into the store before the
\* handshake of a replica and before the listener is bound
rdb_read ==
    /\ pc[MasterConn] = "rdb"
    /\ map' = insert_pairs(map, db_file[1], now)
    /\ pc' = [pc EXCEPT ![MasterConn] = IF is_replica THEN "hs_connect" ELSE "none"]
    /\ listening' = ~is_replica
    /\ UNCHANGED <<role, held, codecVars, streamVars, subVars, waiting_on_list, oneshot,
                   replicas, replication_offset, now, chanVars, txn, bytes, command,
                   txn_inner, exec_ret, ret, locals, histVars>>

\* ------------------------------------------------------------ frames sent
Frame_MULTI == FromIter(<<"MULTI">>)
Frame_EXEC == FromIter(<<"EXEC">>)
Frame_DISCARD == FromIter(<<"discard">>)
Frame_INCR == FromIter(<<"INCR", "k">>)
Frame_FOO == FromIter(<<"FOO", "k">>)
Frame_PSYNC == FromIter(<<"PSYNC", "?", "-1">>)

\* ============================================================== SpecTxn
\* A master: client c1 sends transactions, client c2 attaches as a replica.
TxnFrames == {Frame_MULTI, Frame_EXEC, Frame_DISCARD, Frame_INCR, Frame_FOO}

InitTxn == InitRole("Master")

NextTxn ==
    \/ \E f \in TxnFrames :
          /\ Len(received["c1"]) < MaxTxnCmds
          /\ outbox["c1"] = <<>>      \* c1 reads a reply before it sends the next frame
          /\ (ReadRun("c1", f) \/ ReadQueue("c1", f) \/ ReadExec("c1", f)
                \/ ReadDiscard("c1", f))
    \/ Len(received["c2"]) < 1 /\ ReadRun("c2", Frame_PSYNC)
    \/ \E c \in {"c1", "c2"} :
          \/ RunCommand(c)
          \/ incr(c) \/ incr_insert(c) \/ Multi(c) \/ Exec(c) \/ Discard(c)
          \/ psync(c) \/ psync_send(c)
          \/ Respond(c)
          \/ Write(c)

SpecTxn == InitTxn /\ [][NextTxn]_vars

Rest == {"read", "failed", "panicked"}

\* C1: while a connection's transaction buffer is present, an incoming frame
\* other than EXEC and DISCARD is appended to the buffer and answered QUEUED,
\* and it is not executed: the step that reads it and the step that sends its
\* reply leave the store, the list waiters and the replica registry as they
\* were, nothing is fanned out, and the only frame enqueued anywhere is QUEUED
\* on the connection's own outbox.
C1_Queues(c) ==
    (/\ pc[c] = "read" /\ txn[c] # None
     /\ received'[c] # received[c]
     /\ ~eq_ignore_ascii_case(parse(Last(received'[c])).value[1], "exec")
     /\ ~eq_ignore_ascii_case(parse(Last(received'[c])).value[1], "discard"))
    => /\ txn'[c] = Some(Append(txn[c][1], parse(Last(received'[c])).value))
       /\ ret'[c] = Some(SimpleString("QUEUED"))
       /\ pc'[c] = "respond"
       /\ UNCHANGED <<map, waiting_on_list, oneshot, replicas, outbox, fanned, applied>>
C1_Answers(c) ==
    (pc[c] = "respond" /\ pc'[c] # "respond" /\ ret[c] = Some(SimpleString("QUEUED")))
    => /\ outbox' = [outbox EXCEPT ![c] = Append(@, SimpleString("QUEUED"))]
       /\ pc'[c] = "read"
       /\ UNCHANGED <<map, waiting_on_list, oneshot, replicas, txn, fanned, applied>>
C1_QueuedNotExecuted == [][\A c \in Conns : C1_Queues(c) /\ C1_Answers(c)]_vars

\* C1 witness: c1 has queued a command, QUEUED was written to its socket, and a
\* replica is registered whose outbox the queued write did not reach.
C1_Witness ==
    /\ txn["c1"] = Some(<<<<"INCR", "k">>>>)
    /\ written["c1"] = <<SimpleString("OK"), SimpleString("QUEUED")>>
    /\ replicas = <<"c2">>
    /\ fanned = <<>>
    /\ map["k"] = None

\* C2: EXEC with n buffered commands runs the n commands in order and replies
\* one array of their n replies, leaving no buffer; MULTI, INCR k, INCR k, EXEC
\* on an absent k replies [1, 2].
C2_ExecRepliesArray ==
    \A c \in Conns :
        (exec_n[c] # None /\ pc[c] \in Rest)
        => /\ pc[c] = "read"
           /\ txn[c] = None
           /\ answers[c] # <<>>
           /\ Last(answers[c]).t = "Array"
           /\ Len(Last(answers[c]).a) = exec_n[c][1]
           /\ (received[c] = <<Frame_MULTI, Frame_INCR, Frame_INCR, Frame_EXEC>>
                 => Last(answers[c]) = Array(<<Integer(1), Integer(2)>>))

\* C3: an error raised by a queued command during EXEC does not abort EXEC and
\* does not close the connection: while the queued commands are run, the
\* reader task does not end.
C3_ErrorsEmbedded ==
    \A c \in Conns : txn_inner[c] # None => pc[c] \notin {"failed", "panicked"}

\* ============================================================= SpecRepl
\* A master: clients c1 and c2 write key k, clients c3 and c4 attach as
\* replicas (each sends PSYNC once, as the handshake of a replica does).
\* The i-th frame of a writer carries a value that names the writer and i, so
\* that a frame in an outbox names the write it propagates.
Writers == {"c1", "c2"}
Attached == {"c3", "c4"}
ValueOf(c, i) == (IF c = "c1" THEN "a" ELSE "b") \o ToString(i)
WriterFrame(c, i) == FromIter(<<(IF c = "c1" THEN "SET" ELSE "set"), "k", ValueOf(c, i)>>)
WriterBudget(c) == IF c = "c1" THEN MaxReplCmds ELSE 1

InitRepl == InitRole("Master")

NextRepl ==
    \/ \E c \in Writers :
          /\ Len(received[c]) < WriterBudget(c)
          /\ ReadRun(c, WriterFrame(c, Len(received[c]) + 1))
    \/ \E c \in Attached : Len(received[c]) < 1 /\ ReadRun(c, Frame_PSYNC)
    \/ \E c \in Writers \cup Attached :
          \/ RunCommand(c)
          \/ set(c)
          \/ psync(c) \/ psync_send(c)
          \/ Respond(c)

SpecRepl == InitRepl /\ [][NextRepl]_vars

\* the frames of a propagated write: an array whose head is a write command's name
Commands == {"Ping", "Echo", "Set", "Get", "RPush", "LPush", "LRange", "LLen", "LPop",
             "BLPop", "Type", "XAdd", "XRange", "XRead", "Incr", "Multi", "Exec", "Discard",
             "Info", "ReplConf", "PSync", "Config", "Keys", "Subscribe"}
WriteNames == {to_str(cmd) : cmd \in {cmd \in Commands : is_write(cmd)}}
IsWriteFrame(v) == v.t = "Array" /\ v.a # <<>> /\ v.a[1].s \in WriteNames

\* every frame that reached connection r's outbox, and the write frames among them
Enqueued(r) == written[r] \o outbox[r]
ReplLog(r) == SelectSeq(Enqueued(r), IsWriteFrame)

Drop(s, n) == SubSeq(s, n + 1, Len(s))
IsInfix(s, t) == \E i \in 0..Len(t) : i + Len(s) <= Len(t) /\ SubSeq(t, i + 1, i + Len(s)) = s

LiveReplicas == {replicas[i] : i \in DOMAIN replicas} \ rx_dropped
Quiescent == \A c \in Conns : pc[c] \in {"read", "none"}

\* SET replayed on a store
RECURSIVE Replay(_, _)
Replay(log, m) ==
    IF log = <<>> THEN m
    ELSE Replay(Tail(log),
                [m EXCEPT ![Head(log).a[2].s] =
                    Some(MapValue(MapValueContent_from(Head(log).a[3].s), None))])

\* the values the SET frames of a sequence carry
ValuesOf(frames) == [i \in DOMAIN frames |-> frames[i].a[3].s]

\* the frame v propagates a write of connection w
FromWriter(v, w) == \E i \in 1..WriterBudget(w) : v.a[3].s = ValueOf(w, i)

\* C4: every write the primary executes reaches every replica registered at
\* that time exactly once, and the frames are in a replica's outbox in the order
\* in which the primary applied the writes to its store: once the writers are
\* at rest a replica's frames are the last writes the store applied, in that
\* order, and a replica attached before the first write replays them to the
\* primary's value of every key.
C4_AppliedOrder ==
    \A r \in LiveReplicas :
        Quiescent =>
            /\ Len(ReplLog(r)) <= Len(applied)
            /\ ReplLog(r) = Drop(applied, Len(applied) - Len(ReplLog(r)))
            /\ (reg_at[r] = 0 => Replay(ReplLog(r), [k \in Keys |-> None]) = map)

\* C5: two replicas receive the same write frames in the same order over the
\* interval in which both are registered (each holds exactly the frames fanned
\* out since it registered), and the writes of one connection are in every
\* replica's outbox in the order that connection sent them.
C5_SameOrder ==
    LET log == [r \in Attached |-> ReplLog(r)] IN
    /\ \A r \in LiveReplicas : log[r] = Drop(fanned, reg_at[r])
    /\ \A r1 \in LiveReplicas : \A r2 \in LiveReplicas :
          Len(log[r2]) <= Len(log[r1])
          => log[r2] = Drop(log[r1], Len(log[r1]) - Len(log[r2]))
    /\ \A r \in LiveReplicas : \A w \in Writers :
          IsInfix(ValuesOf(SelectSeq(log[r], LAMBDA v : FromWriter(v, w))),
                  ValuesOf(received[w]))

\* C5 witness: both replicas hold the writes of both writers, c2's write between
\* the two writes of c1.
C5_Witness ==
    /\ LiveReplicas = {"c3", "c4"}
    /\ ReplLog("c3") = <<WriterFrame("c1", 1), FromIter(<<"SET", "k", "b1">>),
                         WriterFrame("c1", 2)>>
    /\ ReplLog("c4") = ReplLog("c3")

\* --------------------------------------------------- a replica and its master
Frame_SET == FromIter(<<"SET", "k", "v">>)
Frame_GETACK == FromIter(<<"REPLCONF", "GETACK", "*">>)
Frame_PING == FromIter(<<"PING">>)
Frame_GET == FromIter(<<"GET", "k">>)

\* what the master answers during the handshake, and what it streams afterwards
HsReplies == {SimpleString("PONG"), SimpleString("OK"),
              SimpleString("FULLRESYNC " \o replication_id \o " 0")}
MasterFrames == {Frame_SET, Frame_MULTI, Frame_EXEC, Frame_GETACK}
ClientFrames == {Frame_PING, Frame_GET}

InitReplica == InitRole("Replica")

NextReplica ==
    \/ \E connected \in BOOLEAN : do_handshake_connect(connected)
    \/ \E reply \in HsReplies :
          \/ do_handshake_pong(reply)
          \/ do_handshake_ok1(reply)
          \/ do_handshake_ok2(reply)
          \/ do_handshake_fullresync(reply)
    \/ \E reply \in {Rdb, SimpleString("OK")} : do_handshake_rdb(reply)
    \/ \E frame \in MasterFrames :
          /\ Len(received[MasterConn]) < MaxMasterCmds
          /\ \/ ReadRun(MasterConn, frame)
             \/ ReadQueue(MasterConn, frame)
             \/ ReadExec(MasterConn, frame)
    \/ \E frame \in ClientFrames :
          /\ Len(received["c1"]) < 1
          /\ ReadRun("c1", frame)
    \/ \E c \in {MasterConn, "c1"} :
          \/ RunCommand(c)
          \/ Ping(c) \/ set(c) \/ get(c)
          \/ Multi(c) \/ Exec(c) \/ replconf(c)
          \/ Respond(c)
          \/ Write(c)

SpecReplica == InitReplica /\ [][NextReplica]_vars

\* a reply to REPLCONF: +OK or the REPLCONF ACK array
IsReplConfReply(v) ==
    \/ v = SimpleString("OK")
    \/ v.t = "Array" /\ Len(v.a) = 3 /\ v.a[1] = BulkString("REPLCONF")

\* C6: on the connection from the master no reply is ever placed in the outbox
\* except the reply to REPLCONF, also while a transaction buffer is active.
C6_NoReplyFromMaster ==
    is_replica => \A i \in DOMAIN outbox[MasterConn] : IsReplConfReply(outbox[MasterConn][i])

\* the byte length of a frame on the wire
FrameLen(v) == Len(write_to(v))

RECURSIVE SumLen(_)
SumLen(frames) == IF frames = <<>> THEN 0 ELSE FrameLen(Head(frames)) + SumLen(Tail(frames))

\* the frames a reader has carried past the offset's update (main.rs 387-391):
\* all it received, less the one it is still handling or died on
Processed(c) ==
    IF pc[c] = "read" \/ received[c] = <<>> THEN received[c]
    ELSE SubSeq(received[c], 1, Len(received[c]) - 1)

\* C7: the replication offset is the sum of the decoder's byte counts of the
\* frames fully processed on the connection from the master; the handshake's
\* bytes are not in it, no step decreases it, and only the reader of the
\* connection from the master changes it.
C7_OffsetIsBytesFromMaster ==
    /\ [](replication_offset = SumLen(Processed(MasterConn)))
    /\ [][/\ replication_offset' >= replication_offset
          /\ replication_offset' # replication_offset
             => pc[MasterConn] = "respond" /\ pc'[MasterConn] = "read"]_vars

\* C7 witness: after the handshake the master's SET and GETACK were counted (a
\* third frame is being handled), and a client's frame was answered.
C7_Witness ==
    /\ Len(written[MasterConn]) >= 4
    /\ Len(received[MasterConn]) = 3 /\ pc[MasterConn] = "execute"
    /\ SubSeq(received[MasterConn], 1, 2) = <<Frame_SET, Frame_GETACK>>
    /\ replication_offset = FrameLen(Frame_SET) + FrameLen(Frame_GETACK)
    /\ Len(received["c1"]) = 1 /\ pc["c1"] = "read"

\* ------------------------------------------ a pipelining client that attaches
Frame_ECHO(s) == FromIter(<<"ECHO", s>>)
PipeFrames == {Frame_PING, Frame_ECHO("a"), Frame_ECHO("b"), Frame_PSYNC}

InitPipe == InitRole("Master")

\* c1 sends its frames without waiting for replies; c2 writes once, which is
\* fanned out to c1 when c1 has attached as a replica.
NextPipe ==
    \/ \E frame \in PipeFrames :
          /\ Len(received["c1"]) < MaxPipeCmds
          /\ ReadRun("c1", frame)
    \/ /\ Len(received["c2"]) < 1
       /\ ReadRun("c2", Frame_SET)
    \/ \E c \in {"c1", "c2"} :
          \/ RunCommand(c)
          \/ Ping(c) \/ Echo(c) \/ set(c)
          \/ psync(c) \/ psync_send(c)
          \/ Respond(c)
          \/ Write(c)

SpecPipe == InitPipe /\ [][NextPipe]_vars

\* the frames that answer one of the client's frames
ReplyTo(frame) ==
    CASE frame = Frame_PING -> <<SimpleString("PONG")>>
      [] frame = Frame_PSYNC ->
           <<SimpleString("FULLRESYNC " \o replication_id \o " 0"), Rdb>>
      [] frame = Frame_SET -> <<BulkString("OK")>>
      [] frame.a[1].s = "ECHO" -> <<frame.a[2]>>

RECURSIVE RepliesTo(_)
RepliesTo(frames) ==
    IF frames = <<>> THEN <<>> ELSE ReplyTo(Head(frames)) \o RepliesTo(Tail(frames))

IsPrefix(s, t) == Len(s) <= Len(t) /\ SubSeq(t, 1, Len(s)) = s
NotWriteFrame(v) == ~IsWriteFrame(v)

\* C8: the replies written to a connection's socket are, in order, the replies
\* to the commands it received, in the order received, whatever write frames
\* are fanned out to its outbox in between.
C8_RepliesInReceiveOrder ==
    \A c \in {"c1", "c2"} :
        /\ IsPrefix(SelectSeq(written[c], NotWriteFrame), RepliesTo(received[c]))
        /\ IsPrefix(SelectSeq(Enqueued(c), NotWriteFrame), RepliesTo(received[c]))

\* C8 witness: three frames were pipelined, their replies are on the socket and
\* a fanned-out write frame was written between two of them.
C8_Witness ==
    /\ Len(received["c1"]) = 3
    /\ SelectSeq(written["c1"], NotWriteFrame) = RepliesTo(received["c1"])
    /\ \E i \in DOMAIN written["c1"] :
          /\ IsWriteFrame(written["c1"][i])
          /\ 1 < i /\ i < Len(written["c1"])
    /\ \E i \in DOMAIN received["c1"] : received["c1"][i] = Frame_ECHO("a")

\* ------------------------------------------------- blocking pops and pushes
Waiters == {"c1", "c2"}
Pusher == "c3"
BlpopFrame(c) == FromIter(<<"BLPOP", "x", (IF c = "c1" THEN "0" ELSE "1")>>)
PushFrames == {FromIter(<<"RPUSH", "x", "a">>), FromIter(<<"RPUSH", "x", "b", "c">>),
               FromIter(<<"LPUSH", "x", "a">>), FromIter(<<"LPUSH", "x", "b", "c">>)}

InitList == InitRole("Master")

NextList ==
    \/ \E c \in Waiters : Len(received[c]) < 1 /\ ReadRun(c, BlpopFrame(c))
    \/ \E frame \in PushFrames :
          /\ Len(received[Pusher]) < MaxListCmds
          /\ ReadRun(Pusher, frame)
    \/ \E c \in Waiters \cup {Pusher} :
          \/ RunCommand(c)
          \/ rpush(c) \/ rpush_drain(c) \/ rpush_insert(c)
          \/ lpush(c) \/ lpush_lookup(c) \/ lpush_insert(c)
          \/ blpop(c) \/ blpop_drop(c) \/ blpop_register(c) \/ blpop_insert(c)
          \/ blpop_recv(c) \/ blpop_recv_err(c) \/ blpop_elapsed(c)
          \/ Respond(c)

SpecList == InitList /\ [][NextList]_vars

\* connection c takes the step of a push that hands values to the waiters of key
PushDrains(c, key) ==
    /\ pc'[c] # pc[c]
    /\ \/ pc[c] = "execute" /\ Cmd(c) = "RPush" /\ map[key] # None
       \/ pc[c] = "rpush_drain"
       \/ pc[c] = "execute" /\ Cmd(c) = "LPush"
    /\ Args(c)[1] = key

\* C9: a BLPOP that finds the list absent or empty goes on to register a
\* waiter; a push of the single value v that executes while that waiter heads
\* the key's FIFO hands v to it, and the woken BLPOP replies [k, v]; a BLPOP
\* on a non-empty list pops the head and replies [k, head] at once.
C9_Registers(c) ==
    (pc[c] = "execute" /\ Cmd(c) = "BLPop" /\ pc'[c] # pc[c])
    => LET key == Args(c)[1]
       IN IF map[key] = None \/ map[key][1].value.items = <<>>
          THEN pc'[c] \in {"blpop_register", "blpop_drop"} /\ UNCHANGED map
          ELSE /\ ret'[c] = Some(FromIter(<<key, Head(map[key][1].value.items)>>))
               /\ map'[key][1].value.items = Tail(map[key][1].value.items)
C9_Wakes(c) ==
    \A key \in Keys :
        (/\ PushDrains(c, key)
         /\ Len(Args(c)) = 2
         /\ waiting_of(key) # <<>>
         /\ oneshot[Head(waiting_of(key))].st = "open")
        => oneshot'[Head(waiting_of(key))] = Sent(Args(c)[2])
C9_Returns(c) ==
    (pc[c] = "blpop_wait" /\ pc'[c] # pc[c] /\ oneshot[locals[c].rx].st = "sent")
    => ret'[c] = Some(FromIter(<<Args(c)[1], oneshot[locals[c].rx].v>>))
C9_PushWakesWaiter ==
    [][\A c \in Conns : C9_Registers(c) /\ C9_Wakes(c) /\ C9_Returns(c)]_vars

\* the reply a push hands back, on the step that produces it
PushReplies(c) ==
    /\ pc[c] \in {"execute", "rpush_insert", "lpush_lookup", "lpush_insert"}
    /\ Cmd(c) \in {"RPush", "LPush"}
    /\ pc'[c] = "respond"

\* the number of channels a step sent a value on
SentBy == Cardinality({i \in DOMAIN oneshot : oneshot[i].st = "open" /\ oneshot'[i].st = "sent"})

HandedEarlier(c) ==
    IF pc[c] = "execute" THEN 0 ELSE locals[c].og_len - Len(locals[c].values)

MaxItemCmds == 1
ItemPushers == {"c3", "c4"}
ItemPoppers == {"c1", "c2"}
ItemOf(c) == IF c = "c3" THEN "a" ELSE "b"
ItemPushFrames(c) ==
    IF c = "c3" THEN {FromIter(<<"RPUSH", "x", "a">>), FromIter(<<"LPUSH", "x", "a">>)}
    ELSE {FromIter(<<"RPUSH", "x", "b">>)}
ItemPopFrames(c) ==
    IF c = "c1" THEN {FromIter(<<"LPOP", "x">>), FromIter(<<"LPOP", "x", "2">>),
                      FromIter(<<"BLPOP", "x", "0">>)}
    ELSE {FromIter(<<"BLPOP", "x", "1">>)}

InitItems == InitRole("Master")

\* c3 pushes a and c4 pushes b, once each; c1 and c2 pop, blocking or not
NextItems ==
    \/ \E c \in ItemPushers : \E frame \in ItemPushFrames(c) :
          /\ Len(received[c]) < 1
          /\ ReadRun(c, frame)
    \/ \E c \in ItemPoppers : \E frame \in ItemPopFrames(c) :
          /\ Len(received[c]) < (IF c = "c1" THEN MaxItemCmds ELSE 1)
          /\ ReadRun(c, frame)
    \/ \E c \in ItemPushers \cup ItemPoppers :
          \/ RunCommand(c)
          \/ rpush(c) \/ rpush_drain(c) \/ rpush_insert(c)
          \/ lpush(c) \/ lpush_lookup(c) \/ lpush_insert(c)
          \/ lpop(c)
          \/ blpop(c) \/ blpop_drop(c) \/ blpop_register(c) \/ blpop_insert(c)
          \/ blpop_recv(c) \/ blpop_recv_err(c) \/ blpop_elapsed(c)
          \/ Respond(c)

SpecItems == InitItems /\ [][NextItems]_vars

\* how often v occurs in a sequence of values
RECURSIVE CountIn(_, _)
CountIn(v, s) ==
    IF s = <<>> THEN 0 ELSE (IF Head(s) = v THEN 1 ELSE 0) + CountIn(v, Tail(s))

\* how often the item v occurs in the replies (bulk string, array or null)
RECURSIVE CountReplies(_, _)
CountReplies(v, s) ==
    IF s = <<>> THEN 0
    ELSE (CASE Head(s) = BulkString(v) -> 1
            [] Head(s).t = "Array" -> CountIn(BulkString(v), Head(s).a)
            [] OTHER -> 0) + CountReplies(v, Tail(s))

\* the places item v is in: the stored list of x, a oneshot channel whose BLPOP
\* has not yet taken it, the replies of the popping connections
Stored(v) == IF map["x"] = None THEN 0 ELSE CountIn(v, map["x"][1].value.items)
InTransit(v) ==
    Cardinality({i \in DOMAIN oneshot :
                    /\ oneshot[i] = Sent(v)
                    /\ \E c \in ItemPoppers : pc[c] = "blpop_wait" /\ locals[c].rx = i})
Returned(v) == CountReplies(v, answers["c1"]) + CountReplies(v, answers["c2"])
Places(v) == Stored(v) + InTransit(v) + Returned(v)

\* the push of connection c has returned
Pushed(c) == received[c] # <<>> /\ pc[c] \in {"respond", "read"}

\* C11: once a push has returned, its item is in exactly one place: stored once
\* in the list, on its way to one blocked BLPOP, or returned by one LPOP/BLPOP.
C11_EveryItemInOnePlace == \A c \in ItemPushers : Pushed(c) => Places(ItemOf(c)) = 1

\* ------------------------------------------------- how a blocked BLPOP ends
\* connection c, suspended in BLPOP's wait, takes a step
BlpopEnds(c) == pc[c] = "blpop_wait" /\ pc'[c] # pc[c]

\* C12: a suspended BLPOP key 0 ends only by replying [key, element] with an
\* element a push sent to it, never null; a suspended BLPOP with a timeout > 0
\* ends by replying that array or, when the timeout elapses with nothing
\* delivered, null.
C12_BlpopEndsWithItemOrNull ==
    [][\A c \in Conns :
          BlpopEnds(c) =>
              /\ pc'[c] = "respond"
              /\ IF oneshot[locals[c].rx].st = "sent"
                 THEN ret'[c] = Some(FromIter(<<Args(c)[1], oneshot[locals[c].rx].v>>))
                 ELSE blpop_timeout(Args(c)) # None /\ ret'[c] = Some(Null)]_vars

\* ------------------------------------------------ concurrent XADDs on a key
MaxStreamCmds == 2
MaxNow == 1
Adders == {"c1", "c2"}
XaddIds == {"0-0", "0-*", "1-*", "1-1", "*"}
XaddFrame(id) == FromIter(<<"XADD", "x", id, "f", "v">>)

InitStream == InitRole("Master")

\* c1 and c2 add to the stream x with explicit, ms-* and * ids while the clock
\* moves
NextStream ==
    \/ \E c \in Adders : \E id \in XaddIds :
          /\ Len(received["c1"]) + Len(received["c2"]) < MaxStreamCmds
          /\ ReadRun(c, XaddFrame(id))
    \/ \E c \in Adders :
          \/ RunCommand(c)
          \/ xadd(c) \/ xadd_store(c) \/ xadd_insert(c) \/ xadd_notify(c)
          \/ Respond(c)
    \/ now < MaxNow /\ Tick

SpecStream == InitStream /\ [][NextStream]_vars

\* the entries stored in the stream of a key
EntriesOf(key) ==
    IF map[key] = None \/ map[key][1].value.kind # "Stream" THEN <<>>
    ELSE map[key][1].value.entries

\* the position in the order of insertions of the stored entry with this id:
\* the latest insertion of the id into the key (0 if there was none)
InsertedAt(key, id) ==
    LET at == {i \in DOMAIN applied : applied[i] = FromIter(<<"XADD", key, id_to_value(id).s>>)}
    IN IF at = {} THEN 0 ELSE CHOOSE i \in at : \A j \in at : j <= i

\* C13: in every stream the stored entries were inserted in strictly increasing
\* order of id, (ms, seq) compared lexicographically, and 0-0 is never stored.
C13_IdsIncreaseInInsertionOrder ==
    \A key \in Keys :
        LET es == EntriesOf(key)
        IN /\ \A i \in DOMAIN es : es[i].id # <<0, 0>> /\ InsertedAt(key, es[i].id) > 0
           /\ \A i, j \in DOMAIN es :
                 InsertedAt(key, es[i].id) < InsertedAt(key, es[j].id)
                 => IdLess(es[i].id, es[j].id)

\* C13 witness: two connections added to the stream x concurrently, one with a
\* sequence number the server chose and one dated by the clock; both entries
\* are stored.
C13_Witness ==
    /\ Len(EntriesOf("x")) = 2
    /\ received["c1"] = <<XaddFrame("*")>>
    /\ received["c2"] = <<XaddFrame("1-*")>>
    /\ \A c \in Adders : pc[c] = "respond"

\* --------------------------------------------- XADDs with a blocked reader
StreamReader == "c3"
XreadFrames == {FromIter(<<"XREAD", "block", "0", "streams", "x", "$">>),
                FromIter(<<"XREAD", "block", "5", "streams", "x", "0-1">>)}

InitStreamWait == InitRole("Master")

\* c3 blocks on the stream x; c1 and c2 add to it
NextStreamWait ==
    \/ \E c \in Adders : \E id \in XaddIds \ {"*"} :
          /\ Len(received["c1"]) + Len(received["c2"]) < MaxStreamCmds
          /\ ReadRun(c, XaddFrame(id))
    \/ \E frame \in XreadFrames :
          /\ Len(received[StreamReader]) < 1
          /\ ReadRun(StreamReader, frame)
    \/ \E c \in Adders \cup {StreamReader} :
          \/ RunCommand(c)
          \/ xadd(c) \/ xadd_store(c) \/ xadd_insert(c) \/ xadd_notify(c)
          \/ xread_block(c) \/ xread_spawn(c) \/ xread_recv(c) \/ xread_elapsed(c)
          \/ xread_join(c)
          \/ Respond(c)

SpecStreamWait == InitStreamWait /\ [][NextStreamWait]_vars

TopItemError ==
    SimpleError("ERR The ID specified in XADD is equal or smaller than the target stream top item")

\* connection c takes the step of XADD that decides on the id 0-0
XaddZero(c) ==
    /\ pc[c] = "execute" /\ pc'[c] # pc[c]
    /\ Cmd(c) = "XAdd" /\ Args(c)[2] = "0-0"

\* connection c takes the step of XADD that writes the stream, with an id that
\* is not above the top id the stream has at that step
XaddNotAboveTop(c) ==
    /\ pc[c] \in {"xadd_store", "xadd_insert"} /\ pc'[c] # pc[c]
    /\ EntriesOf(Args(c)[1]) # <<>>
    /\ IdLeq(locals[c].id, Last(EntriesOf(Args(c)[1])).id)

\* C14: an XADD with the id 0-0 replies a simple error, and an XADD with an id
\* not strictly greater than the stream's top id replies exactly the top-item
\* error; either leaves the stream as it is and sends no event to a waiter.
C14_RejectedXaddChangesNothing ==
    [][\A c \in Adders :
          /\ XaddZero(c) =>
                /\ pc'[c] = "respond" /\ ret'[c][1].t = "SimpleError"
                /\ UNCHANGED <<map, stream_chan>>
          /\ XaddNotAboveTop(c) =>
                /\ pc'[c] = "respond" /\ ret'[c] = Some(TopItemError)
                /\ UNCHANGED <<map, stream_chan>>]_vars

\* ------------------------------------------------ ZADDs on one sorted set
MaxZaddCalls == 3
ZaddCallers == {"c1", "c2"}
ZaddArgs == {<<"ZADD", "k", score, member>> : score \in {"1", "2", "oops"}, member \in {"a", "b"}}

InitZset == InitRole("Master")

\* c1 and c2 apply zadd to the key k, with scores that parse and one that
\* does not
NextZset ==
    \/ \E c \in ZaddCallers : \E argv \in ZaddArgs :
          /\ Len(answers["c1"]) + Len(answers["c2"])
               + Cardinality({d \in ZaddCallers : pc[d] = "call"}) < MaxZaddCalls
          /\ Call(c, argv)
    \/ \E c \in ZaddCallers : zadd(c) \/ Respond(c)

SpecZset == InitZset /\ [][NextZset]_vars

\* the entries of the sorted set stored at key
SetOf(m, key) ==
    IF m[key] = None \/ m[key][1].value.kind # "SortedSet" THEN <<>> ELSE m[key][1].value.entries

\* connection c takes the step of a ZADD whose score parses
ZaddReturns(c) ==
    /\ pc[c] = "call" /\ pc'[c] = "respond"
    /\ command[c][1] = "ZADD"

MaxKvCmds == 2
Setter == "c1"
Getter == "c2"
SetValues == {"a", "01", "-1"}
SetFrames == {FromIter(<<"SET", "k", v>>) : v \in SetValues}
                \cup {FromIter(<<"SET", "k", v, "PX", "1">>) : v \in SetValues}

InitKv == InitRole("Master")

\* c1 sets k, with and without an expiry, c2 gets it, and the clock moves
NextKv ==
    \/ \E frame \in SetFrames :
          /\ Len(received[Setter]) < MaxKvCmds
          /\ ReadRun(Setter, frame)
    \/ /\ Len(received[Getter]) < MaxKvCmds
       /\ ReadRun(Getter, Frame_GET)
    \/ \E c \in {Setter, Getter} :
          \/ RunCommand(c)
          \/ set(c) \/ get(c) \/ get_remove(c)
          \/ Respond(c)
    \/ now < MaxNow /\ Tick

SpecKv == InitKv /\ [][NextKv]_vars

\* the value text of the latest SET applied to key
LastSetValue(key) ==
    LET at == {i \in DOMAIN applied : applied[i].a[1].s = "SET" /\ applied[i].a[2].s = key}
    IN applied[CHOOSE i \in at : \A j \in at : j <= i].a[3].s

\* connection c takes the step of GET that looks the entry of k up
GetLooksUp(c) ==
    /\ pc[c] = "execute" /\ pc'[c] # pc[c]
    /\ Cmd(c) = "Get" /\ map[Args(c)[1]] # None

\* C16: a GET that finds the entry a SET without expiry stored replies the bulk
\* string of the text that was set, unchanged, also when the text parses as a
\* signed 64-bit integer.
C16_GetReturnsWhatWasSet ==
    [][\A c \in Conns :
          (GetLooksUp(c) /\ map[Args(c)[1]][1].expires_at = None)
          => ret'[c] = Some(BulkString(LastSetValue(Args(c)[1])))]_vars

\* C17: a GET that finds the entry of SET k v PX ms before the expiry instant
\* replies v and leaves the entry; one that finds it after the instant removes
\* the entry and replies null, so that k is absent afterwards.
C17_GetObservesExpiry ==
    [][\A c \in Conns :
          /\ (GetLooksUp(c) /\ map[Args(c)[1]][1].expires_at # None)
             => IF now < map[Args(c)[1]][1].expires_at[1]
                THEN /\ ret'[c] = Some(BulkString(LastSetValue(Args(c)[1])))
                     /\ UNCHANGED map
                ELSE pc'[c] = "get_remove"
          /\ (pc[c] = "get_remove" /\ pc'[c] # pc[c])
             => ret'[c] = Some(Null) /\ map'[Args(c)[1]] = None]_vars

\* ------------------------------------------------- a subscribed connection
MaxSubCmds == 3
Subscriber == "c1"
Follower == "c3"
SubFrames == {FromIter(<<"SUBSCRIBE", "ch">>), Frame_PING, Frame_SET, Frame_GET, Frame_MULTI}

InitSub == InitRole("Master")

\* c1 subscribes and goes on sending commands while c3 is attached as a replica
NextSub ==
    \/ \E frame \in SubFrames :
          /\ Len(received[Subscriber]) < MaxSubCmds
          /\ \/ ReadRun(Subscriber, frame)
             \/ ReadQueue(Subscriber, frame)
    \/ Len(received[Follower]) < 1 /\ ReadRun(Follower, Frame_PSYNC)
    \/ \E c \in {Subscriber, Follower} :
          \/ RunCommand(c)
          \/ Ping(c) \/ set(c) \/ get(c) \/ Multi(c)
          \/ subscribe(c) \/ Ping_Subscribed(c) \/ execute_subscribed(c)
          \/ psync(c) \/ psync_send(c)
          \/ Respond(c)

SpecSub == InitSub /\ [][NextSub]_vars

\* connection c is in Subscribed mode and run_command has a command for it
\* that the mode does not allow
Refused(c) ==
    /\ pc[c] = "run" /\ mode[c] = "Subscribed"
    /\ from_str(command[c][1]) # None
    /\ Cmd(c) \notin {"Subscribe", "Ping"}

\* C18: a command other than SUBSCRIBE and PING that a connection in Subscribed
\* mode runs is answered with the "ERR Can't execute" error and has no effect:
\* no step of it changes the store, creates a transaction buffer or sends a
\* frame to a replica's outbox.
C18_RefusedHasNoEffect ==
    [][\A c \in Conns :
          /\ (pc[c] = "execute_subscribed" /\ pc'[c] # pc[c] /\ Cmd(c) \notin {"Subscribe", "Ping"})
             => /\ ret'[c] = Some(CantExecute(Cmd(c)))
                /\ UNCHANGED <<map, txn>>
          /\ (Refused(c) /\ pc'[c] # pc[c])
             => /\ UNCHANGED <<map, txn>>
                /\ \A r \in Conns \ {c} : outbox'[r] = outbox[r]]_vars

\* ------------------------------------------------- publishing and leaving
MaxPubCmds == 2
MaxPublishes == 1
Listeners == {"c1", "c2"}
Publisher == "c3"
PubFrames == {FromIter(<<"SUBSCRIBE", channel>>) : channel \in Channels}
                \cup {FromIter(<<"SUBSCRIBE">>)}
PubBudget(c) == IF c = "c1" THEN MaxPubCmds ELSE 1

InitPub == InitRole("Master")

\* c1 and c2 subscribe, unsubscribe, are written to and go away; c3 publishes
NextPub ==
    \/ \E c \in Listeners : \E frame \in PubFrames :
          /\ Len(received[c]) < PubBudget(c)
          /\ ReadRun(c, frame)
    \/ /\ channels["c1"] # {} /\ Len(received["c1"]) = PubBudget("c1")
       /\ Call("c1", <<"UNSUBSCRIBE", "ch">>)
    \/ /\ Len(answers[Publisher]) + (IF pc[Publisher] = "call" THEN 1 ELSE 0) < MaxPublishes
       /\ Call(Publisher, <<"PUBLISH", "ch", "hi">>)
    \/ \E c \in Listeners \cup {Publisher} :
          \/ RunCommand(c)
          \/ subscribe(c) \/ unsubscribe(c) \/ publish(c)
          \/ Respond(c)
    \/ \E c \in Listeners :
          \/ Write(c) \/ WriteFail(c)
          \/ ReadEof(c)
          \/ handle_connection_end(c)

SpecPub == InitPub /\ [][NextPub]_vars

\* the connections subscribed to a channel whose outbox can take a frame
SubscribedTo(channel) == {d \in Conns : channel \in channels[d] /\ d \notin rx_dropped}

\* connection c takes the step of publish that sends and replies
Publishes(c) ==
    /\ pc[c] = "call" /\ pc'[c] = "respond"
    /\ command[c][1] = "PUBLISH"

\* C19: PUBLISH c m appends exactly one ["message", c, m] frame to the outbox of
\* each connection subscribed to c, none to any other outbox, and replies the
\* number of those connections, also when one of them subscribed to c twice.
C19_PublishOncePerSubscriber ==
    [][\A c \in Conns :
          Publishes(c)
          => LET channel == command[c][2]
                 frame == FromIter(<<"message", channel, command[c][3]>>)
             IN /\ \A d \in Conns :
                      outbox'[d] = IF d \in SubscribedTo(channel)
                                   THEN Append(outbox[d], frame)
                                   ELSE outbox[d]
                /\ ret'[c] = Some(Integer(Cardinality(SubscribedTo(channel))))]_vars

\* connection c's reader reached EOF or failed
ReaderEnded(c) == pc[c] \in {"eof", "failed", "panicked"}

\* C20: once the connection dropped and handle_connection is over, the
\* connection's outbox is in no channel's list of subscribers.
C20_DroppedIsUnregistered ==
    \A c \in Conns :
       (ReaderEnded(c) /\ c \in rx_dropped)
       => \A channel \in Channels : \A i \in DOMAIN channel_listeners[channel] :
             channel_listeners[channel][i] # c

\* ------------------------------------------------ the start of a replica's stream
\* C21: the first frame that reaches the outbox of a connection registered by
\* PSYNC is the simple string FULLRESYNC <replid> <offset>, the second is the
\* snapshot, and every propagated write comes after both.
C21_SnapshotBeforeWrites ==
    \A r \in Conns :
       (\E i \in DOMAIN replicas : replicas[i] = r)
       => LET e == Enqueued(r)
          IN /\ Len(e) >= 1 => /\ e[1].t = "SimpleString"
                                /\ starts_with(e[1].s, "FULLRESYNC " \o replication_id \o " ")
             /\ Len(e) >= 2 => e[2] = Rdb

\* ------------------------------------------------------ the codec on its own
MaxArrayLen == 2
CodecStrings == {"", "OK", "hello"}
CodecInts == {-1, 0, 12}
CodecScalars ==
    {SimpleString(str) : str \in CodecStrings} \cup {SimpleError(str) : str \in CodecStrings}
    \cup {BulkString(str) : str \in CodecStrings} \cup {Integer(n) : n \in CodecInts}
    \cup {Null}
CodecItems == CodecScalars \cup {Array(<<>>), FromIter(<<"GET", "k">>)}
CodecFrames ==
    CodecItems \cup UNION {{Array(a) : a \in [1..n -> CodecItems]} : n \in 1..MaxArrayLen}

\* Value::write_to applied to a frame the server can emit
Encode ==
    /\ codec_value = None
    /\ \E v \in CodecFrames :
          /\ codec_value' = Some(v)
          /\ codec_wire' = write_to(v)
    /\ UNCHANGED <<role, held, map, waiting_on_list, oneshot, replicas, replication_offset, now,
                   listening, streamVars, subVars, codec_parsed, db_file, chanVars, connVars,
                   histVars>>

\* resp::parse applied to the bytes written
Decode ==
    /\ codec_value # None /\ codec_parsed = None
    /\ codec_parsed' = Some(parse_bytes(codec_wire))
    /\ UNCHANGED <<role, held, map, waiting_on_list, oneshot, replicas, replication_offset, now,
                   listening, streamVars, subVars, codec_value, codec_wire, db_file, chanVars,
                   connVars, histVars>>

InitCodec == InitRole("Master")
NextCodec == Encode \/ Decode
SpecCodec == InitCodec /\ [][NextCodec]_vars

\* the value a frame carries, as the decoder's JSON
RECURSIVE Json(_)
Json(v) ==
    CASE v.t \in {"SimpleString", "SimpleError", "BulkString"} -> JsonString(v.s)
      [] v.t = "Integer" -> [j |-> "Number", n |-> v.n]
      [] v.t = "Null" -> [j |-> "Null"]
      [] v.t = "Array" -> JsonArray([i \in DOMAIN v.a |-> Json(v.a[i])])

\* C22: decoding the bytes the encoder wrote for a frame yields the frame's
\* value, and the decoder's byte count is the number of bytes written.
C22_DecodeInvertsEncode ==
    codec_parsed # None
    => /\ codec_parsed[1].st = "ok"
       /\ codec_parsed[1].value = Json(codec_value[1])
       /\ codec_parsed[1].bytes = Len(codec_wire)

\* ------------------------------------------------------- pushes, then LRANGE
MaxPushCmds == 3
ListClient == "c1"
Frame_LRANGE_ALL == FromIter(<<"LRANGE", "k", "0", "-1">>)
ListFrames == {FromIter(<<"RPUSH", "k", "a", "b">>), FromIter(<<"LPUSH", "k", "a", "b">>),
               FromIter(<<"RPUSH", "k", "c">>), FromIter(<<"LPUSH", "k", "c">>),
               Frame_LRANGE_ALL}

InitPush == InitRole("Master")

\* one client pushes to k and reads the whole list; nothing waits on k
NextPush ==
    \/ \E frame \in ListFrames :
          /\ Len(received[ListClient]) < MaxPushCmds
          /\ ReadRun(ListClient, frame)
    \/ RunCommand(ListClient)
    \/ rpush(ListClient) \/ rpush_drain(ListClient) \/ rpush_insert(ListClient)
    \/ lpush(ListClient) \/ lpush_lookup(ListClient) \/ lpush_insert(ListClient)
    \/ lrange(ListClient)
    \/ Respond(ListClient)

SpecPush == InitPush /\ [][NextPush]_vars

\* the list that a sequence of RPUSH and LPUSH frames on one key builds:
\* RPUSH appends its arguments, LPUSH puts them at the head in reverse
RECURSIVE ListAfter(_)
ListAfter(frames) ==
    IF frames = <<>> THEN <<>>
    ELSE LET before == ListAfter(SubSeq(frames, 1, Len(frames) - 1))
             f == frames[Len(frames)].a
             values == [i \in 1..(Len(f) - 2) |-> f[i + 2].s]
         IN CASE f[1].s = "RPUSH" -> before \o values
              [] f[1].s = "LPUSH" -> Reverse(values) \o before
              [] OTHER -> before

\* C23: the reply to LRANGE k 0 -1 is the list built by the pushes before it:
\* RPUSH k a b on an absent key gives [a, b] and LPUSH k a b gives [b, a]; on an
\* existing list RPUSH appends in order and LPUSH prepends in reverse order.
C23_RangeAfterPushes ==
    \A i \in DOMAIN answers[ListClient] :
       received[ListClient][i] = Frame_LRANGE_ALL
       => answers[ListClient][i] = FromIter(ListAfter(SubSeq(received[ListClient], 1, i - 1)))

C23_Witness ==
    /\ received[ListClient] = <<FromIter(<<"LPUSH", "k", "a", "b">>),
                                FromIter(<<"RPUSH", "k", "c">>), Frame_LRANGE_ALL>>
    /\ answers[ListClient] = <<Integer(2), Integer(3), FromIter(<<"b", "a", "c">>)>>

\* ------------------------------------------------------------ lost wakeups
\* connection c is suspended in BLPOP: its waiter is registered and nothing was
\* sent to it
Suspended(c) ==
    /\ pc[c] = "blpop_wait"
    /\ oneshot[locals[c].rx].st = "open"

\* C24: whenever every other connection is between commands, a BLPOP on k is
\* not suspended while the stored list of k is non-empty: an item pushed between
\* its emptiness check and its registration has been delivered to it.
C24_NoLostWakeup ==
    \A c \in Conns :
       (Suspended(c) /\ \A d \in Conns \ {c} : pc[d] \in {"read", "none"} \/ Suspended(d))
       => LET e == map[Args(c)[1]]
          IN e = None \/ e[1].value.items = <<>>

\* ------------------------------------------- guards at suspension points
MaxSuspendCmds == 2
Blockers == {"c1", "c3"}
Feeder == "c2"
BlockFrames(c) ==
    IF c = "c1" THEN {FromIter(<<"BLPOP", "k", "0">>),
                      FromIter(<<"XREAD", "block", "0", "streams", "x", "$">>)}
    ELSE {FromIter(<<"BLPOP", "k", "1">>),
          FromIter(<<"XREAD", "block", "5", "streams", "x", "0-1">>)}
FeedFrames == {FromIter(<<"RPUSH", "k", "a">>), FromIter(<<"LPOP", "k">>), XaddFrame("1-1")}

InitSuspend == InitRole("Master")

\* c1 and c3 each block once, on the list k or on the stream x; c2 pushes to k,
\* pops from it and adds to x
NextSuspend ==
    \/ \E c \in Blockers : \E frame \in BlockFrames(c) :
          /\ Len(received[c]) < 1
          /\ ReadRun(c, frame)
    \/ \E frame \in FeedFrames :
          /\ Len(received[Feeder]) < MaxSuspendCmds
          /\ ReadRun(Feeder, frame)
    \/ \E c \in Blockers \cup {Feeder} :
          \/ RunCommand(c)
          \/ rpush(c) \/ rpush_drain(c) \/ rpush_insert(c)
          \/ lpop(c)
          \/ blpop(c) \/ blpop_drop(c) \/ blpop_register(c) \/ blpop_insert(c)
          \/ blpop_recv(c) \/ blpop_recv_err(c) \/ blpop_elapsed(c)
          \/ xadd(c) \/ xadd_store(c) \/ xadd_insert(c) \/ xadd_notify(c)
          \/ xread_block(c) \/ xread_spawn(c) \/ xread_recv(c) \/ xread_elapsed(c)
          \/ xread_join(c)
          \/ Respond(c)

SpecSuspend == InitSuspend /\ [][NextSuspend]_vars

\* the places where a handler is suspended: BLPOP and XREAD BLOCK waiting for
\* their channel, and the steps that wait for the lock of the replica registry
SuspensionPoints == {"blpop_wait", "xread_wait", "run", "psync_send"}

\* C25: a connection at a suspension point holds no guard of a store entry.
C25_NoGuardWhileSuspended ==
    \A c \in Conns : pc[c] \in SuspensionPoints => held[c] = {}

\* C25 witness: c3's BLPOP found the list k stored and empty, so it had the
\* entry's guard in hand, and is now suspended on its channel while c1 is
\* suspended in XREAD BLOCK.
C25_Witness ==
    /\ received["c3"] = <<FromIter(<<"BLPOP", "k", "1">>)>>
    /\ received[Feeder] = <<FromIter(<<"RPUSH", "k", "a">>), FromIter(<<"LPOP", "k">>)>>
    /\ pc[Feeder] = "read"
    /\ map["k"] = Some(MapValue(List(<<>>), None))
    /\ pc["c3"] = "blpop_wait"
    /\ pc["c1"] = "xread_wait"

\* ------------------------------------------------ writes to expired entries
MaxExpireNow == 2
MaxExpireCmds == 2
ExpireFrames == {FromIter(<<"INCR", "k">>), FromIter(<<"RPUSH", "k", "a">>),
                 FromIter(<<"LPOP", "k">>)}

InitExpire == InitRole("Master")

\* c1 sets k to 1 with an expiry of one millisecond, the clock moves on, and c2
\* writes to k
NextExpire ==
    \/ /\ Len(received[Setter]) < 1
       /\ ReadRun(Setter, FromIter(<<"SET", "k", "1", "PX", "1">>))
    \/ \E frame \in ExpireFrames :
          /\ Len(received[Getter]) < MaxExpireCmds
          /\ ReadRun(Getter, frame)
    \/ \E c \in {Setter, Getter} :
          \/ RunCommand(c)
          \/ set(c)
          \/ incr(c) \/ incr_insert(c)
          \/ rpush(c) \/ rpush_drain(c) \/ rpush_insert(c)
          \/ lpop(c)
          \/ Respond(c)
    \/ now < MaxExpireNow /\ Tick

SpecExpire == InitExpire /\ [][NextExpire]_vars

\* the entry of key is stored with an expires_at in the past
Expired(key) ==
    /\ map[key] # None
    /\ map[key][1].expires_at # None
    /\ map[key][1].expires_at[1] < now

\* connection c takes the step of a write handler that looks key up
WriterLooksUp(c, key) ==
    /\ pc[c] = "execute" /\ pc'[c] # pc[c]
    /\ Cmd(c) \in {"Incr", "RPush", "LPop"}
    /\ Args(c) # <<>> /\ Args(c)[1] = key

\* C26: a write handler that finds an expired entry under its key treats the
\* key as absent: the handler does not fail on the expired value, what is stored
\* afterwards carries no expiry, and INCR stores and replies 1.
C26_WritersObserveExpiry ==
    [][\A c \in Conns : \A key \in Keys :
          (WriterLooksUp(c, key) /\ Expired(key))
          => /\ pc'[c] \notin {"panicked", "failed"}
             /\ map'[key] # None => map'[key][1].expires_at = None
             /\ Cmd(c) = "Incr"
                => (pc'[c] = "incr_insert"
                    \/ (/\ ret'[c] = Some(Integer(1))
                        /\ map'[key] = Some(MapValue([kind |-> "Integer", n |-> 1], None))))
      ]_vars

\* ------------------------------------------------------- INCR at the limit
MaxIncrCmds == 2
IncrClients == {"c1", "c2"}
IncrFrames == {Frame_INCR, FromIter(<<"SET", "k", "2147483647">>),
               FromIter(<<"SET", "k", "2147483646">>), FromIter(<<"SET", "k", "5">>)}

InitIncr == InitRole("Master")

\* c1 and c2 set k to i64::MAX, to the integer below it or to 5, and increment it
NextIncr ==
    \/ \E c \in IncrClients : \E frame \in IncrFrames :
          /\ Len(received[c]) < MaxIncrCmds
          /\ ReadRun(c, frame)
    \/ \E c \in IncrClients :
          \/ RunCommand(c)
          \/ set(c)
          \/ incr(c) \/ incr_insert(c)
          \/ Respond(c)

SpecIncr == InitIncr /\ [][NextIncr]_vars

OutOfRange == SimpleError("ERR value is not an integer or out of range")

\* C27: INCR on i64::MAX replies the out-of-range error and leaves the value;
\* on a smaller integer n it stores and replies n + 1; on an absent key it
\* stores and replies 1.
C27_IncrChecksOverflow ==
    [][\A c \in Conns :
          /\ (pc[c] = "execute" /\ pc'[c] # pc[c] /\ Cmd(c) = "Incr" /\ Args(c) # <<>>)
             => LET e == map[Args(c)[1]]
                IN IF e = None THEN pc'[c] = "incr_insert"
                   ELSE IF e[1].value.kind # "Integer" THEN TRUE
                   ELSE IF e[1].value.n = I64_MAX
                   THEN ret'[c] = Some(OutOfRange) /\ map' = map
                   ELSE /\ ret'[c] = Some(Integer(e[1].value.n + 1))
                        /\ map'[Args(c)[1]][1].value = [kind |-> "Integer", n |-> e[1].value.n + 1]
          /\ (pc[c] = "incr_insert" /\ pc'[c] # pc[c])
             => /\ ret'[c] = Some(Integer(1))
                /\ map'[Args(c)[1]] = Some(MapValue([kind |-> "Integer", n |-> 1], None))
      ]_vars

\* ------------------------------------------- commands on the wrong kind
MaxKindCmds == 2
KindFrames == {FromIter(<<"LPUSH", "k", "a">>), FromIter(<<"RPUSH", "k", "a">>),
               Frame_LRANGE_ALL, FromIter(<<"LLEN", "k">>), FromIter(<<"LPOP", "k">>),
               FromIter(<<"BLPOP", "k", "0">>), FromIter(<<"XADD", "k", "1-1", "f", "v">>)}

InitKind == InitRole("Master")

\* c1 sets k to a string; c2 sends list and stream commands on k (nothing is
\* pushed for a BLPOP that came before the SET and waits)
NextKind ==
    \/ /\ Len(received[Setter]) < 1
       /\ ReadRun(Setter, FromIter(<<"SET", "k", "a">>))
    \/ \E frame \in KindFrames :
          /\ Len(received[Getter]) < MaxKindCmds
          /\ ReadRun(Getter, frame)
    \/ \E c \in {Setter, Getter} :
          \/ RunCommand(c)
          \/ set(c)
          \/ rpush(c) \/ rpush_drain(c) \/ rpush_insert(c)
          \/ lpush(c) \/ lpush_lookup(c) \/ lpush_insert(c)
          \/ lrange(c) \/ llen(c) \/ lpop(c)
          \/ blpop(c) \/ blpop_register(c) \/ blpop_insert(c)
          \/ xadd(c) \/ xadd_store(c) \/ xadd_insert(c) \/ xadd_notify(c)
          \/ Respond(c)

SpecKind == InitKind /\ [][NextKind]_vars

WrongType == SimpleError("WRONGTYPE Operation against a key holding the wrong kind of value")

\* connection c takes the step in which a list or stream handler looks its key
\* up and finds a value of another kind
FindsWrongKind(c) ==
    /\ pc'[c] # pc[c]
    /\ \/ pc[c] = "execute" /\ Cmd(c) \in {"RPush", "LRange", "LLen", "LPop", "BLPop"}
       \/ pc[c] \in {"lpush_lookup", "xadd_store"}
    /\ Args(c) # <<>>
    /\ map[Args(c)[1]] # None
    /\ map[Args(c)[1]][1].value.kind # (IF pc[c] = "xadd_store" THEN "Stream" ELSE "List")

\* C28: a list or stream command that finds a value of another kind under its
\* key replies the WRONGTYPE error, changes neither the store nor the waiters,
\* and the connection goes on to send the reply and read the next command.
C28_WrongKindReplies ==
    [][\A c \in Conns :
          FindsWrongKind(c)
          => /\ pc'[c] = "respond"
             /\ ret'[c] = Some(WrongType)
             /\ map' = map
             /\ waiting_on_list' = waiting_on_list
      ]_vars

\* ------------------------------------------------- ill-formed commands
MaxShapeCmds == 2
IllFormed == {FromIter(<<"SET", "k", "v", "PX", "abc">>), FromIter(<<"SET", "k">>),
              FromIter(<<"LRANGE", "k", "x", "y">>), FromIter(<<"LPOP", "k", "abc">>),
              FromIter(<<"LLEN">>), FromIter(<<"PSYNC", "a", "b">>)}
ShapeFrames == IllFormed \cup {Frame_SET}

InitShape == InitRole("Master")

\* c1 sends well-formed and ill-formed commands while c3 attaches as a replica
NextShape ==
    \/ \E frame \in ShapeFrames :
          /\ Len(received[Subscriber]) < MaxShapeCmds
          /\ ReadRun(Subscriber, frame)
    \/ Len(received[Follower]) < 1 /\ ReadRun(Follower, Frame_PSYNC)
    \/ \E c \in {Subscriber, Follower} :
          \/ RunCommand(c)
          \/ set(c) \/ lrange(c) \/ llen(c) \/ lpop(c)
          \/ psync(c) \/ psync_send(c)
          \/ Respond(c)

SpecShape == InitShape /\ [][NextShape]_vars

\* connection c takes a step of run_command or of the handler on an ill-formed
\* command
RunsIllFormed(c) ==
    /\ pc[c] \in {"run", "execute"} /\ pc'[c] # pc[c]
    /\ Last(received[c]) \in IllFormed

\* C29: a command with a wrong argument count or an unparsable number is
\* answered with a simple error; no step of it changes the store, the replica
\* registry or an outbox, and the connection goes on to read the next command.
C29_IllFormedIsAnswered ==
    [][\A c \in Conns :
          RunsIllFormed(c)
          => /\ pc'[c] \in {"execute", "respond"}
             /\ pc'[c] = "respond" => ret'[c] # None /\ ret'[c][1].t = "SimpleError"
             /\ map' = map
             /\ replicas' = replicas
             /\ outbox' = outbox
      ]_vars

\* ------------------------------------------------------- LRANGE's indices
MaxRangeCmds == 3
RangeIndices == {"-4", "-1", "0", "1", "5"}
RangeFrames == {FromIter(<<"LRANGE", "k", i, j>>) : i, j \in RangeIndices}
                 \cup {FromIter(<<"RPUSH", "k", "a", "b", "c">>), FromIter(<<"LPOP", "k", "2">>),
                       FromIter(<<"LPOP", "k">>)}

InitRange == InitRole("Master")

\* one client pushes three items to k, pops from it and asks for ranges of it
NextRange ==
    \/ \E frame \in RangeFrames :
          /\ Len(received[ListClient]) < MaxRangeCmds
          /\ ReadRun(ListClient, frame)
    \/ RunCommand(ListClient)
    \/ rpush(ListClient) \/ rpush_drain(ListClient) \/ rpush_insert(ListClient)
    \/ lpop(ListClient)
    \/ lrange(ListClient)
    \/ Respond(ListClient)

SpecRange == InitRange /\ [][NextRange]_vars

\* the items of the inclusive range start..end of items: a negative index i
\* stands for len + i, end is clamped to len - 1, and the range is empty when
\* start > end after that or start >= len
RangeOf(items, start, end) ==
    LET len == Len(items)
        s == IF start < 0 THEN len + start ELSE start
        e0 == IF end < 0 THEN len + end ELSE end
        e == IF e0 >= len THEN len - 1 ELSE e0
        first == IF s < 0 THEN 0 ELSE s
    IN IF s > e \/ s >= len THEN <<>> ELSE SubSeq(items, first + 1, e + 1)

\* C30: LRANGE k start end replies the items of the normalised range of the
\* stored list, and the empty array for an absent key.
C30_RangeIsNormalised ==
    [][\A c \in Conns :
          (/\ pc[c] = "execute" /\ pc'[c] # pc[c] /\ Cmd(c) = "LRange"
           /\ Len(Args(c)) = 3
           /\ parse_int(Args(c)[2]) # None /\ parse_int(Args(c)[3]) # None
           /\ map[Args(c)[1]] # None => map[Args(c)[1]][1].value.kind = "List")
          => LET e == map[Args(c)[1]]
                 items == IF e = None THEN <<>> ELSE e[1].value.items
                 want == RangeOf(items, parse_int(Args(c)[2])[1], parse_int(Args(c)[3])[1])
             IN ret'[c] = Some(Array([i \in 1..Len(want) |-> BulkString(want[i])]))
      ]_vars

\* ------------------------------------------------------- ZRANGE's indices
MaxZsetSize == 3
MaxZrangeCalls == 1
ZsetCaller == "c1"
ZsetArgs == {<<"ZADD", "k", "2", "a">>, <<"ZADD", "k", "1", "b">>, <<"ZADD", "k", "1", "c">>}
ZrangeIndices == {"-4", "-1", "0", "1", "3"}
ZrangeArgs == {<<"ZRANGE", "k", i, j>> : i, j \in ZrangeIndices}

InitZrange == InitRole("Master")

\* c1 applies zadd up to three times and then zrange once
NextZrange ==
    \/ \E argv \in ZsetArgs :
          /\ Len(answers[ZsetCaller]) < MaxZsetSize
          /\ Call(ZsetCaller, argv)
    \/ \E argv \in ZrangeArgs :
          /\ Len(answers[ZsetCaller]) < MaxZsetSize + MaxZrangeCalls
          /\ \A i \in DOMAIN answers[ZsetCaller] : answers[ZsetCaller][i].t = "Integer"
          /\ Call(ZsetCaller, argv)
    \/ zadd(ZsetCaller) \/ zrange(ZsetCaller) \/ Respond(ZsetCaller)

SpecZrange == InitZrange /\ [][NextZrange]_vars

\* C31: ZRANGE k start stop replies the members at the ranks of the normalised
\* inclusive range, in rank order, and the empty array when the range is empty
\* or the key absent; it never fails.
C31_ZrangeIsNormalised ==
    [][(/\ pc[ZsetCaller] = "call" /\ pc'[ZsetCaller] # "call"
        /\ command[ZsetCaller][1] = "ZRANGE")
       => LET members == SetOf(map, "k")
              want == RangeOf(members, parse_int(Args(ZsetCaller)[2])[1],
                                   parse_int(Args(ZsetCaller)[3])[1])
          IN ret'[ZsetCaller] = Some(Array([i \in 1..Len(want) |-> BulkString(want[i].value)]))
      ]_vars

\* ------------------------------------------- XREAD BLOCK 0 on several keys
MaxXreadAdds == 2
XreadZeroFrames == {FromIter(<<"XREAD", "block", "0", "streams", "x", "0-1">>),
                    FromIter(<<"XREAD", "block", "0", "streams", "k", "x", "$", "$">>),
                    FromIter(<<"XREAD", "block", "0", "streams", "k", "x", "0-0", "0-1">>)}
XaddTo(key, id) == FromIter(<<"XADD", key, id, "f", "v">>)

InitXread == InitRole("Master")

\* c3 blocks without a timeout on one or two streams; c1 and c2 add to them
NextXread ==
    \/ \E c \in Adders : \E key \in Keys : \E id \in {"0-1", "1-1"} :
          /\ Len(received["c1"]) + Len(received["c2"]) < MaxXreadAdds
          /\ ReadRun(c, XaddTo(key, id))
    \/ \E frame \in XreadZeroFrames :
          /\ Len(received[StreamReader]) < 1
          /\ ReadRun(StreamReader, frame)
    \/ \E c \in Adders \cup {StreamReader} :
          \/ RunCommand(c)
          \/ xadd(c) \/ xadd_store(c) \/ xadd_insert(c) \/ xadd_notify(c)
          \/ xread_block(c) \/ xread_spawn(c) \/ xread_recv(c) \/ xread_join(c)
          \/ Respond(c)

SpecXread == InitXread /\ [][NextXread]_vars

\* the events of the pairs of an XREAD reply
RepliedEvents(v) ==
    IF v.t # "Array" THEN {}
    ELSE UNION {{<<v.a[i].a[1].s, v.a[i].a[2].a[j].a[1].s>> : j \in DOMAIN v.a[i].a[2].a}
                : i \in DOMAIN v.a}

\* C32: an XREAD BLOCK 0 that stops waiting completes normally, and its reply
\* holds an event, each event of it being an entry that was added to a listed
\* stream.
C32_BlockZeroReturnsFirstEvent ==
    [][\A c \in Conns :
          (pc[c] = "xread_wait" /\ pc'[c] # pc[c] /\ jset[c] # <<>>)
          => /\ pc'[c] = "respond"
             /\ ret'[c] # None
             /\ RepliedEvents(ret'[c][1]) # {}
             /\ \A ev \in RepliedEvents(ret'[c][1]) :
                   \E i \in DOMAIN applied : applied[i] = FromIter(<<"XADD", ev[1], ev[2]>>)
      ]_vars

\* --------------------------------------------- XADD's events to the waiters
\* the channels whose senders are listed among the waiters of key
WaitersOf(key) == {waiting_on_stream[key][j] : j \in DOMAIN waiting_on_stream[key]}

\* C33: every task of an XREAD BLOCK that is still waiting is listed among the
\* waiters of its key; the XADD step that notifies appends its (id, fields)
\* event once to the channel of every listed waiter whose receiver lives,
\* touches no other channel and drops the waiters whose receiver is gone; an
\* XADD that replies an error sends nothing.
C33_EveryWaiterGetsTheEvent ==
    /\ [](\A c \in Conns : \A j \in DOMAIN jset[c] :
             ~jset[c][j].done
             => /\ stream_chan[jset[c][j].rx].open
                /\ Cardinality({i \in DOMAIN waiting_on_stream[jset[c][j].key] :
                                   waiting_on_stream[jset[c][j].key][i] = jset[c][j].rx}) = 1)
    /\ [][\A c \in Conns :
             /\ (pc[c] = "xadd_notify" /\ pc'[c] # pc[c])
                => LET key == Args(c)[1]
                       ev == StreamEvent(locals[c].id, SubSeq(Args(c), 3, Len(Args(c))))
                   IN /\ \A i \in DOMAIN stream_chan :
                            stream_chan'[i] =
                               IF i \in WaitersOf(key) /\ stream_chan[i].open
                               THEN [stream_chan[i] EXCEPT !.events = Append(@, ev)]
                               ELSE stream_chan[i]
                      /\ \A i \in WaitersOf(key) :
                            i \in WaitersOf(key)' <=> stream_chan[i].open
             /\ (/\ pc[c] \in {"execute", "xadd_store"} /\ Cmd(c) = "XAdd"
                 /\ pc'[c] = "respond" /\ ret'[c][1].t = "SimpleError")
                => UNCHANGED <<stream_chan, waiting_on_stream>>
      ]_vars

\* C33 witness: c1 and c3 blocked on the stream x; c3's timeout elapsed; c2's
\* XADD then sent its event to c1's channel and dropped c3's sender.
C33_Witness ==
    /\ pc[Feeder] = "respond"
    /\ received[Feeder] = <<XaddFrame("1-1")>>
    /\ Len(stream_chan) = 2
    /\ \E i, j \in DOMAIN stream_chan :
          /\ stream_chan[i] = [events |-> <<StreamEvent(<<1, 1>>, <<"f", "v">>)>>, open |-> TRUE]
          /\ ~stream_chan[j].open
          /\ waiting_on_stream["x"] = <<i>>

\* ------------------------------------------------------ the reply to GETACK
\* the reader of the connection from the master takes the step of replconf on
\* GETACK *
AnswersGetack ==
    /\ pc[MasterConn] = "execute" /\ pc'[MasterConn] # "execute"
    /\ Cmd(MasterConn) = "ReplConf"
    /\ Len(Args(MasterConn)) = 2
    /\ to_lowercase(Args(MasterConn)[1]) = "getack" /\ Args(MasterConn)[2] = "*"

\* C34: the reply to a GETACK from the master is [REPLCONF, ACK, n], n being the
\* bytes of the frames received from the master before that GETACK frame; its
\* own bytes are not in n.
C34_AckCountsEarlierFrames ==
    [][AnswersGetack
       => \E i \in DOMAIN received[MasterConn] :
             /\ received[MasterConn][i] = Frame_GETACK
             /\ ret'[MasterConn] =
                   Some(FromIter(<<"REPLCONF", "ACK",
                                   ToString(SumLen(SubSeq(received[MasterConn], 1, i - 1)))>>))
      ]_vars

\* C34, as the code has it: the reply to a GETACK from the master carries the
\* replication offset at the time replconf runs, the bytes of the frames whose
\* handling was completed.  For a GETACK that runs as it arrives these are the
\* frames before it; a GETACK that was queued after MULTI runs inside EXEC, when
\* its own frame has been counted already.
C34_AckIsOffsetWhenRun ==
    [][AnswersGetack
       => LET ack == FromIter(<<"REPLCONF", "ACK",
                                ToString(SumLen(Processed(MasterConn)))>>)
          IN IF txn_inner[MasterConn] = None
             THEN /\ ret'[MasterConn] = Some(ack)
                  /\ Last(received[MasterConn]) = Frame_GETACK
             ELSE IF txn_inner'[MasterConn] = None
             THEN /\ ret'[MasterConn] # None
                  /\ Last(ret'[MasterConn][1].a) = ack
             ELSE Last(exec_ret'[MasterConn]) = ack
      ]_vars

\* C34 witness: the master sent GETACK twice; the second reply counts the 37
\* bytes of the first GETACK frame and not its own.
C34_Witness ==
    /\ received[MasterConn] = <<Frame_GETACK, Frame_GETACK>>
    /\ pc[MasterConn] = "respond"
    /\ ret[MasterConn] = Some(FromIter(<<"REPLCONF", "ACK", "37">>))
    /\ replication_offset = 37

\* ------------------------------------------------------------ C35
\* the four requests of do_handshake, in the order of the source
HandshakeRequests ==
    << FromIter(<<"PING">>),
       FromIter(<<"REPLCONF", "listening-port", ToString(listening_port)>>),
       FromIter(<<"REPLCONF", "capa", "psync2">>),
       FromIter(<<"PSYNC", "?", "-1">>) >>

HandshakeStages == {"hs_connect", "hs_pong", "hs_ok1", "hs_ok2", "hs_fullresync", "hs_rdb"}

\* the handshake has sent exactly the first `n` requests, and the reply it
\* decoded last is `got`
HandshakeAt(n, got) ==
    /\ written[MasterConn] = SubSeq(HandshakeRequests, 1, n)
    /\ locals[MasterConn].values = got

\* C35: the handshake sends PING, REPLCONF listening-port, REPLCONF capa psync2
\* and PSYNC ? -1 in this order, each only after PONG, OK, OK answered the one
\* before; the dispatch loop for the master's socket starts only once a
\* FULLRESYNC reply and the snapshot were consumed; and after an unexpected
\* reply no frame is ever dispatched and no client is accepted.
C35_HandshakeInOrder ==
    /\ [](/\ pc[MasterConn] = "hs_connect" => HandshakeAt(0, <<>>)
          /\ pc[MasterConn] = "hs_pong" => HandshakeAt(1, <<>>)
          /\ pc[MasterConn] = "hs_ok1" => HandshakeAt(2, <<"PONG">>)
          /\ pc[MasterConn] = "hs_ok2" => HandshakeAt(3, <<"OK">>)
          /\ pc[MasterConn] = "hs_fullresync" => HandshakeAt(4, <<"OK">>)
          /\ pc[MasterConn] = "hs_rdb" =>
                /\ written[MasterConn] = HandshakeRequests
                /\ starts_with(locals[MasterConn].values[1], "FULLRESYNC")
          /\ pc[MasterConn] \in HandshakeStages \cup {"failed"} =>
                /\ ~listening
                /\ \A c \in Conns : received[c] = <<>> /\ pc[c] \notin {"run", "call"}
                /\ Len(written[MasterConn]) <= Len(HandshakeRequests)
                /\ written[MasterConn] =
                      SubSeq(HandshakeRequests, 1, Len(written[MasterConn]))
          /\ pc[MasterConn] \notin HandshakeStages \cup {"failed"} =>
                /\ listening
                /\ Len(written[MasterConn]) >= Len(HandshakeRequests)
                /\ SubSeq(written[MasterConn], 1, Len(HandshakeRequests)) = HandshakeRequests)
    /\ [][/\ pc[MasterConn] = "failed" => pc'[MasterConn] = "failed"
          /\ (pc[MasterConn] \in HandshakeStages /\ pc'[MasterConn] \notin HandshakeStages \cup {"failed"}) =>
                pc[MasterConn] = "hs_rdb" /\ pc'[MasterConn] = "read"]_vars

\* the handshake completed and the master's first frame was dispatched
C35_Witness ==
    /\ listening
    /\ pc[MasterConn] = "run"
    /\ Len(received[MasterConn]) = 1
    /\ written[MasterConn] = HandshakeRequests

\* ------------------------------------------------------------ C36
MaxModeCmds == 3
ModeClients == {"c1", "c2"}
ModeFrames == {FromIter(<<"SUBSCRIBE", channel>>) : channel \in Channels}
                \cup {FromIter(<<"SUBSCRIBE">>), Frame_PING}
ModeBudget(c) == IF c = "c1" THEN MaxModeCmds ELSE 1

InitMode == InitRole("Master")

\* c1 and c2 subscribe to and unsubscribe from either channel in any order
NextMode ==
    \/ \E c \in ModeClients : \E frame \in ModeFrames :
          /\ Len(received[c]) < ModeBudget(c)
          /\ ReadRun(c, frame)
    \/ \E c \in ModeClients : \E channel \in Channels :
          Call(c, <<"UNSUBSCRIBE", channel>>)
    \/ \E c \in ModeClients :
          \/ RunCommand(c)
          \/ Ping(c) \/ Ping_Subscribed(c)
          \/ subscribe(c) \/ unsubscribe(c)
          \/ Respond(c)

SpecMode == InitMode /\ [][NextMode]_vars

\* connection c takes the step of subscribe that replies
Subscribes(c) ==
    /\ pc[c] \in {"execute", "execute_subscribed"} /\ pc'[c] = "respond"
    /\ command[c][1] = "SUBSCRIBE"

\* connection c takes the step of unsubscribe
Unsubscribes(c) ==
    /\ pc[c] = "call" /\ pc'[c] = "read"
    /\ command[c][1] = "UNSUBSCRIBE"

\* C36: a connection is in Subscribed mode exactly while its set of channels is
\* non-empty; the unsubscribe that removes the last channel puts it back in
\* Normal mode, and SUBSCRIBE replies the size of the set.
C36_ModeFollowsChannels ==
    /\ [](\A c \in Conns : mode[c] = "Subscribed" <=> channels[c] # {})
    /\ [][\A c \in Conns :
             /\ Subscribes(c)
                => /\ command[c][2] \in channels'[c]
                   /\ ret'[c] = Some(Array(<<BulkString("subscribe"), BulkString(command[c][2]),
                                             Integer(Cardinality(channels'[c]))>>))
             /\ Unsubscribes(c)
                => /\ channels'[c] = channels[c] \ {command[c][2]}
                   /\ channels'[c] = {} => mode'[c] = "Normal"]_vars

\* c1 subscribed to both channels and left them one after the other
C36_Witness ==
    /\ \E i \in DOMAIN answers["c1"] :
          answers["c1"][i] = Array(<<BulkString("subscribe"), BulkString("news"), Integer(2)>>)
    /\ channels["c1"] = {} /\ mode["c1"] = "Normal"
    /\ pc["c1"] = "read" /\ command["c1"] = <<"UNSUBSCRIBE", "news">>
    /\ channel_listeners["ch"] = <<>> /\ channel_listeners["news"] = <<>>

\* ------------------------------------------------------------ C37
MaxDbEntries == 2
MaxRdbNow == 2
MaxRdbCmds == 2
RdbClient == "c1"

\* timestamps of 0 s, 1 s and 256 s after 0xfd, of 1 ms, 3 ms and 256 ms after 0xfc
DbEntries ==
    {DbEntry(0, <<>>, key, "v") : key \in Keys}
    \cup {DbEntry(253, timestamp, key, "v") :
             timestamp \in {<<0, 0, 0, 0>>, <<1, 0, 0, 0>>, <<0, 1, 0, 0>>}, key \in Keys}
    \cup {DbEntry(252, timestamp, key, "v") :
             timestamp \in {<<1, 0, 0, 0, 0, 0, 0, 0>>, <<3, 0, 0, 0, 0, 0, 0, 0>>,
                            <<0, 1, 0, 0, 0, 0, 0, 0>>},
             key \in Keys}
DbFiles == UNION {[1..n -> DbEntries] : n \in 1..MaxDbEntries}
RdbFrames == {FromIter(<<"GET", key>>) : key \in Keys}

InitRdb == \E file \in DbFiles : InitFile("Master", Some(file))

\* a warm start at any time, then c1 reads the keys while the clock runs
NextRdb ==
    \/ rdb_read
    \/ \E frame \in RdbFrames :
          /\ Len(received[RdbClient]) < MaxRdbCmds
          /\ ReadRun(RdbClient, frame)
    \/ RunCommand(RdbClient)
    \/ get(RdbClient) \/ get_remove(RdbClient)
    \/ Respond(RdbClient)
    \/ now < MaxRdbNow /\ Tick

SpecRdb == InitRdb /\ [][NextRdb]_vars

\* the instant a pair of the snapshot encodes, in milliseconds since the epoch
EncodedInstant(entry) ==
    CASE entry.flag = 0 -> None
      [] entry.flag = 253 -> Some(1000 * from_le_bytes(entry.timestamp))
      [] entry.flag = 252 -> Some(from_le_bytes(entry.timestamp))

\* the pairs of the snapshot with this key
PairsOf(key) == {i \in DOMAIN db_file[1] : db_file[1][i].key = key}
LastPairOf(key) == db_file[1][CHOOSE i \in PairsOf(key) : \A j \in PairsOf(key) : j <= i]

\* C37: a pair with flag 0xFD or 0xFC is loaded with expires_at equal to the
\* instant it encodes (seconds or milliseconds since the epoch) and a pair with
\* flag 0x00 with no expiry; after the warm start GET returns the pair's value
\* exactly when the current time is before that instant.
C37_SnapshotExpiryIsLoaded ==
    [][/\ (pc[MasterConn] = "rdb" /\ pc'[MasterConn] # "rdb")
          => \A key \in Keys :
                map'[key] = IF PairsOf(key) = {} THEN None
                            ELSE Some(MapValue([kind |-> "String", s |-> LastPairOf(key).value],
                                               EncodedInstant(LastPairOf(key))))
       /\ \A c \in Conns :
             (/\ pc[c] = "execute" /\ pc'[c] # "execute"
              /\ command[c][1] = "GET" /\ PairsOf(command[c][2]) # {})
             => LET pair == LastPairOf(command[c][2])
                    live == IF EncodedInstant(pair) = None THEN TRUE
                            ELSE now < EncodedInstant(pair)[1]
                IN live <=> (pc'[c] = "respond" /\ ret'[c] = Some(BulkString(pair.value)))]_vars

\* ------------------------------------------------------------ C38
\* the store, the waiter and subscriber registries, the replica registry and
\* every outbox but connection c's own are left as they are
NothingExecuted(c) ==
    /\ UNCHANGED <<map, waiting_on_list, waiting_on_stream, channel_listeners, oneshot,
                   replicas, fanned, applied>>
    /\ \A r \in Conns \ {c} : outbox'[r] = outbox[r]

\* connection c's reader or writer takes a step
StepOf(c) == pc'[c] # pc[c] \/ received'[c] # received[c] \/ written'[c] # written[c]

\* the last frame connection c received is a DISCARD
LastIsDiscard(c) ==
    /\ received[c] # <<>>
    /\ eq_ignore_ascii_case(parse(Last(received[c])).value[1], "discard")

\* C38: DISCARD on a connection with a transaction buffer replies OK and drops
\* the buffer; from a MULTI the client sent to the reply of DISCARD no step of
\* the connection touches the store, a registry or a replica's outbox, so none
\* of the queued commands is executed; EXEC and DISCARD without a buffer reply ERR EXEC
\* without MULTI and ERR DISCARD without MULTI and change nothing.
C38_DiscardDropsTheBuffer ==
    [][\A c \in Clients :
          /\ (pc[c] = "read" /\ txn[c] # None /\ received'[c] # received[c]
                 /\ eq_ignore_ascii_case(parse(Last(received'[c])).value[1], "discard"))
             => /\ txn'[c] = None
                /\ ret'[c] = Some(SimpleString("OK"))
                /\ pc'[c] = "respond"
          /\ (/\ StepOf(c) /\ exec_n[c] = None
              /\ (txn[c] # None \/ (pc[c] = "execute" /\ Cmd(c) = "Multi")))
             => NothingExecuted(c)
          /\ (pc[c] = "respond" /\ pc'[c] # "respond" /\ LastIsDiscard(c))
             => /\ outbox'[c] = Append(outbox[c], ret[c][1])
                /\ txn'[c] = None
                /\ NothingExecuted(c)
          /\ (pc[c] = "execute" /\ pc'[c] # "execute" /\ Cmd(c) \in {"Exec", "Discard"})
             => /\ ret'[c] = Some(SimpleError(IF Cmd(c) = "Exec"
                                               THEN "ERR EXEC without MULTI"
                                               ELSE "ERR DISCARD without MULTI"))
                /\ txn'[c] = None /\ txn[c] = None
                /\ NothingExecuted(c)]_vars

\* c1 sent MULTI, INCR k and DISCARD while c2 was attached as a replica, then
\* DISCARD once more
C38_Witness ==
    /\ written["c1"] = <<SimpleString("OK"), SimpleString("QUEUED"), SimpleString("OK"),
                         SimpleError("ERR DISCARD without MULTI")>>
    /\ txn["c1"] = None
    /\ map["k"] = None
    /\ replicas = <<"c2">> /\ fanned = <<>> /\ applied = <<>>

\* ------------------------------------------------------------ C39
\* the entry of key is present and not expired
Live(key) ==
    /\ map[key] # None
    /\ (map[key][1].expires_at = None \/ now < map[key][1].expires_at[1])

\* C39: the removal step of a GET that observed an expired entry removes only
\* an expired entry: an entry that is live when the step is taken, written by a
\* SET of another connection that completed in between, is still there after it.
C39_GetRemovesOnlyExpired ==
    [][\A c \in Conns :
          (pc[c] = "get_remove" /\ pc'[c] # pc[c] /\ Live(Args(c)[1]))
          => map'[Args(c)[1]] = map[Args(c)[1]]]_vars

\* ------------------------------------------------------------ C40
\* connection c takes the step of a ZADD whose score does not parse
ZaddFails(c) ==
    /\ pc[c] = "call" /\ pc'[c] # pc[c]
    /\ command[c][1] = "ZADD" /\ Len(Args(c)) = 3
    /\ parse_f64(Args(c)[2]) = None

\* C40: a ZADD whose score does not parse as a number ends in an error and
\* leaves the keyspace as it was: no member leaves the sorted set and no empty
\* sorted set appears at an absent key.
C40_ZaddAllOrNothing ==
    [][\A c \in ZaddCallers :
          ZaddFails(c) => /\ pc'[c] # "respond"
                          /\ map' = map]_vars

====
